---- MODULE Spec2Model ----
(***************************************************************************)
(* Request-rate throttling engine of ccxt (python).                        *)
(*                                                                         *)
(*   Part I   MultiThrottler  (async_support/base/multi_throttler.py)      *)
(*            a multi-rule token bucket with a FIFO queue of futures and   *)
(*            one background driver task (_loop) on an asyncio event loop. *)
(*   Part II  the blocking rate limiter of Exchange.fetch2 / throttle      *)
(*            (test_throttle_standalone.py, MinimalExchange), used by      *)
(*            several threads under a re-entrant lock.                     *)
(*                                                                         *)
(*   Part III the rule objects of MultiThrottler by identity.               *)
(*   Part IV  ExchangeAwareThrottler (base/throttle.py), a request budget   *)
(*            per time window.                                              *)
(*                                                                         *)
(*   Part V   Throttler of async_support (async_support/base/throttler.py), *)
(*            the queue-based throttler that takes scalar and dict costs.   *)
(*                                                                         *)
(*   Part VI  AdaptiveThrottler (base/throttle.py), a delay that follows    *)
(*            the outcome of the requests.                                  *)
(*                                                                         *)
(* Time is discrete: one clock unit is one millisecond, refill rates are   *)
(* whole tokens per millisecond and token balances are integers.           *)
(* asyncio runs the code between two awaits without interleaving, so the   *)
(* callers' operations are enabled only while the driver is suspended.     *)
(***************************************************************************)
EXTENDS Integers, Sequences, FiniteSets, TLC

\* ------------------------------------------------------------------ bounds
\* last clock reading of a behaviour
MaxTime == 2
\* number of throttle() calls of a behaviour
MaxRequests == 3
\* number of callers that abandon their request in a behaviour
MaxCancels == 1
\* number of times the wall clock is set back in a behaviour
MaxSetBacks == 2

\* --------------------------------------------------------- program constants
\* the driver yields to the event loop every 10th admission of one pass
YieldEvery == 10
\* AdaptiveThrottler adjusts after this many on_success calls (line 126) and
\* after this many on_error calls (line 134)
SuccessThreshold == 10
ErrorThreshold == 3

\* ------------------------------------------------------------------ helpers
Min(a, b) == IF a <= b THEN a ELSE b
Max(a, b) == IF a >= b THEN a ELSE b
\* a / b rounded up: a sleep of a/b ms ends at the first whole ms not before it
CeilDiv(a, b) == (a + b - 1) \div b
Range(s) == {s[i] : i \in 1..Len(s)}

\* ------------------------------------------------------------------- inputs
RuleIds == {"A", "B"}
NoRule == [absent |-> TRUE]

\* ThrottleRule(id, capacity, refill_rate, tokens, ...): interval_type and
\* interval_num are descriptive only and never read by the algorithm.
ThrottleRule(id, capacity, refill_rate, tokens) ==
    [id |-> id, capacity |-> capacity, refill_rate |-> refill_rate, tokens |-> tokens]

RuleA == ThrottleRule("A", 2, 1, 2)
RuleB == ThrottleRule("B", 1, 2, 0)
\* the rules callers pass to the constructor and to add_rule
InputRules == {RuleA, RuleB}
\* the rule list the constructor is given
InitialRuleLists == {<<RuleA>>, <<RuleA, RuleB>>}

\* MultiThrottlerConfig(max_capacity, delay): delay is kept in milliseconds
\* (the default 0.001 s is 1 ms); the modelled instance has a short queue
MultiThrottlerConfig(maxcap, d) == [max_capacity |-> maxcap, delay |-> d]
config == MultiThrottlerConfig(2, 1)

\* A cost dict is the sequence of its (rule id, cost) items in insertion order,
\* which is the order dict.items() iterates in.
CostVectors ==
    { <<>>,
      << <<"A", 1>> >>,
      << <<"A", 1>>, <<"B", 1>> >>,
      << <<"A", -1>> >>,
      << <<"A", 3>> >> }
\* the values callers pass to set_tokens
TokenValues == {-1, 1, 5}
\* a value above every capacity: set_tokens fills the rule
FillValues == {5}

CostKeys(cost) == {cost[i][1] : i \in 1..Len(cost)}

\* -------------------------------------------------------------------- state
VARIABLES
    rules,           \* self.rules: rule id -> rule record, NoRule when absent
    queue,           \* self.queue: sequence of [id, cost]; id names the future
    running,         \* self.running
    req,             \* call id -> how the call stands: "none" (not made),
                     \* "UnknownRule"/"QueueFull" (throttle raised, no future),
                     \* or the state of its asyncio.Future: "pending",
                     \* "done" (set_result), "cancelled"
    pc,              \* position of the _loop task
    last_timestamp,  \* _loop's local last_timestamp
    processed,       \* _loop's local processed
    wake_at,         \* earliest clock reading at which the pending sleep ends
    now,             \* time.time() * 1000
    ncalls,          \* throttle() calls made so far
    mark,            \* observer: the start t0 of a measured interval, the
                     \* balances read at t0 and the costs debited since
    \* ---- Part II: one exchange instance and the threads calling fetch2
    exchange,        \* instance -> its rateLimit and enableRateLimit
    lastRestRequestTimestamp,   \* instance -> self.lastRestRequestTimestamp
    lock,            \* lock -> owning thread (0: free) and depth of the RLock
    tpc,             \* thread -> position in fetch2
    tlocal,          \* thread -> locals of fetch2/throttle: self, cost, and
                     \* the clock reading at which its time.sleep is over
    clock,           \* time.time() of Part II, in ticks
    exits,           \* instance -> clock readings at which threads left its
                     \* throttle: the readings of line 46
    \* ---- what the caller of a query method got back
    returned,        \* the last query made and its return value
    \* ---- Part III: rule objects by identity
    heap,            \* address -> ThrottleRule object, NoObject when free
    table,           \* self.rules: rule id -> address of the stored object
    held,            \* addresses of the rule objects the caller holds
    \* ---- Part IV: an ExchangeAwareThrottler and the coroutines calling it
    exchange_id,     \* self.exchange_id
    limits,          \* self.limits.get('default'), NoLimit when absent
    ea_call,         \* coroutine -> position in throttle, its cost and the
                     \* clock reading at which its sleep is over
    ea_now,          \* time.time() of Part IV
    ea_ncalls,       \* throttle() calls made so far
    \* ---- Part V: a Throttler of async_support and its looper task
    th_rules,        \* self.rules: rule id -> rule record, NoRule when absent
    th_config,       \* self.config, NoConfig when None
    th_last,         \* self.last_timestamps
    th_queue,        \* self.queue: sequence of [id, cost]; id names the future
    th_running,      \* self.running
    th_req,          \* call id -> "none", "QueueFull" or the state of its
                     \* future: "pending", "done"
    th_pc,           \* position of the looper task
    th_wake,         \* clock reading at which the looper's sleep ends
    th_now,          \* time() * 1000 of Part V
    th_ncalls,       \* throttle() calls made so far
    \* ---- Part VI: an AdaptiveThrottler
    adaptive,        \* its fields base_delay, max_delay, current_delay,
                     \* success_count and error_count
    ad_sleep,        \* the delays that throttle calls in progress sleep for
    ad_adjusts,      \* adjustments of current_delay made so far
    \* ---- the wall clock of Part I
    set_back,        \* how many times time.time() was set back so far
    \* ---- Part VII: a BrokenExchange and the threads calling fetch2_broken
    broken,          \* its lastRestRequestTimestamp, the clock, and for every
                     \* thread its position and locals
    \* ---- Part VIII: a CustomTokenBucketThrottler and the coroutines calling it
    bucket,          \* its tokens and last_refill, the clock, for every
                     \* coroutine its position, cost and the end of its sleep,
                     \* and the cost of the calls that have returned
    \* ---- Part IX: a Throttler of base/throttle.py and its loop task
    bt               \* its config['tokens'], queue and running, the futures,
                     \* the position of the loop task and the clock

mtVars == <<rules, queue, running, req, pc, last_timestamp, processed, wake_at,
            now, ncalls, mark>>
syncVars == <<exchange, lastRestRequestTimestamp, lock, tpc, tlocal, clock, exits>>
eaVars == <<exchange_id, limits, ea_call, ea_now, ea_ncalls>>
thVars == <<th_rules, th_config, th_last, th_queue, th_running, th_req, th_pc,
            th_wake, th_now, th_ncalls>>
adVars == <<adaptive, ad_sleep, ad_adjusts>>
extVars == <<broken, bucket, bt>>
custVars == <<eaVars, thVars, adVars, set_back, extVars>>
auxVars == <<returned, heap, table, held, custVars>>
vars == <<mtVars, syncVars, auxVars>>

\* the driver is suspended (or does not exist): other coroutines may run
Suspended == pc \in {"idle", "scheduled", "yield", "sleep", "crashed"}

\* ------------------------------------------------------- MultiThrottler code
\* __init__: clone every rule of the list into the table, later entries win
RulesOf(list) ==
    [r \in RuleIds |->
        IF \E i \in 1..Len(list) : list[i].id = r
        THEN LET i == CHOOSE i \in 1..Len(list) :
                        /\ list[i].id = r
                        /\ \A j \in (i+1)..Len(list) : list[j].id # r
             IN  ThrottleRule(list[i].id, list[i].capacity, list[i].refill_rate,
                              list[i].tokens)
        ELSE NoRule]

Known(rs) == {r \in RuleIds : rs[r] # NoRule}

\* _can_process: "yes", "no", or "raise" at the first missing rule that is
\* reached before any rule with too few tokens
RECURSIVE CanProcessFrom(_, _, _)
CanProcessFrom(rs, cost, i) ==
    IF i > Len(cost) THEN "yes"
    ELSE IF cost[i][1] \notin Known(rs) THEN "raise"
    ELSE IF rs[cost[i][1]].tokens < cost[i][2] THEN "no"
    ELSE CanProcessFrom(rs, cost, i + 1)

\* (mutant) an empty cost is never processable
_can_process_nonempty(rs, cost) ==
    IF Len(cost) = 0 THEN "no" ELSE CanProcessFrom(rs, cost, 1)

\* (mutant) a rule must hold more than the cost
_can_process_strictly(rs, cost) ==
    IF /\ CanProcessFrom(rs, cost, 1) = "yes"
       /\ \E k \in 1..Len(cost) : rs[cost[k][1]].tokens = cost[k][2]
    THEN "no"
    ELSE CanProcessFrom(rs, cost, 1)

_can_process(rs, cost) == CanProcessFrom(rs, cost, 1)

\* (mutant) the debit stops after the first item of the cost
_consume_first_only(rs, cost) ==
    [r \in RuleIds |->
        IF r \in Known(rs) /\ Len(cost) > 0 /\ cost[1][1] = r
        THEN [rs[r] EXCEPT !.tokens = @ - cost[1][2]]
        ELSE rs[r]]

\* _consume_tokens: debit every rule of the cost that exists
_consume_tokens(rs, cost) ==
    [r \in RuleIds |->
        IF r \in Known(rs) /\ r \in CostKeys(cost)
        THEN LET i == CHOOSE i \in 1..Len(cost) : cost[i][1] = r
             IN  [rs[r] EXCEPT !.tokens = @ - cost[i][2]]
        ELSE rs[r]]

\* (mutant) the loop measures every pass from the epoch, as if last_timestamp
\* were never kept
ElapsedSinceEpoch(current_time, lt) == current_time

\* line 129: elapsed = current_time - last_timestamp
Elapsed(current_time, lt) == current_time - lt

\* (mutant) the refill is not cut down to the capacity
_refill_tokens_unclamped(rs, elapsed) ==
    [r \in RuleIds |->
        IF r \in Known(rs)
        THEN [rs[r] EXCEPT !.tokens = @ + rs[r].refill_rate * elapsed]
        ELSE rs[r]]

\* _refill_tokens
_refill_tokens(rs, elapsed) ==
    [r \in RuleIds |->
        IF r \in Known(rs)
        THEN [rs[r] EXCEPT !.tokens = Min(@ + rs[r].refill_rate * elapsed,
                                          rs[r].capacity)]
        ELSE rs[r]]

\* _calculate_wait_time, in milliseconds
RECURSIVE WaitFrom(_, _, _, _)
WaitFrom(rs, cost, i, acc) ==
    IF i > Len(cost) THEN acc
    ELSE IF cost[i][1] \notin Known(rs) THEN WaitFrom(rs, cost, i + 1, acc)
    ELSE IF rs[cost[i][1]].tokens < cost[i][2]
         THEN WaitFrom(rs, cost, i + 1,
                       Max(acc, CeilDiv(cost[i][2] - rs[cost[i][1]].tokens,
                                        rs[cost[i][1]].refill_rate)))
         ELSE WaitFrom(rs, cost, i + 1, acc)

_calculate_wait_time(rs, cost) == WaitFrom(rs, cost, 1, 0)

\* (mutant) the capacity test lets the queue grow one past max_capacity
ThrottleOutcomeOffByOne(rs, q, cost) ==
    IF CostKeys(cost) \ Known(rs) # {} THEN "UnknownRule"
    ELSE IF Len(q) > config.max_capacity THEN "QueueFull"
    ELSE "queued"

\* (mutant) the cost ids are not validated on entry
ThrottleOutcomeNoValidation(rs, q, cost) ==
    IF Len(q) >= config.max_capacity THEN "QueueFull"
    ELSE "queued"

\* (mutant) the capacity test comes before the validation of the cost ids
ThrottleOutcomeCapacityFirst(rs, q, cost) ==
    IF Len(q) >= config.max_capacity THEN "QueueFull"
    ELSE IF CostKeys(cost) \ Known(rs) # {} THEN "UnknownRule"
    ELSE "queued"

\* throttle(), lines 174-182: how the call ends
ThrottleOutcome(rs, q, cost) ==
    IF CostKeys(cost) \ Known(rs) # {} THEN "UnknownRule"
    ELSE IF Len(q) >= config.max_capacity THEN "QueueFull"
    ELSE "queued"

\* (mutant) reset adds a bucketful instead of filling the bucket
FillAllByAdding(rs) ==
    [r \in RuleIds |->
        IF r \in Known(rs)
        THEN [rs[r] EXCEPT !.tokens = @ + rs[r].capacity]
        ELSE rs[r]]

\* lines 212-213 of reset: rule.tokens = rule.capacity for every rule
FillAll(rs) ==
    [r \in RuleIds |->
        IF r \in Known(rs)
        THEN [rs[r] EXCEPT !.tokens = rs[r].capacity]
        ELSE rs[r]]

\* (mutant) set_tokens stores the value as given
ClampTokensNot(tokens, capacity) == tokens

\* line 219 of set_tokens: max(0, min(tokens, rule.capacity))
ClampTokens(tokens, capacity) == Max(0, Min(tokens, capacity))

\* ----------------------------------------------------------------- observer
\* The observer of one rule over an interval [t0, now] (it is no part of the
\* program): at t0 it reads the rule's tokens, and from then on it adds up the
\* costs that admissions debit from the rule.  "since" is the clock reading up
\* to which the live driver had refilled at t0 (t0 when no driver loop was
\* running).  The observation is void once add_rule, set_tokens or reset has
\* touched the rule.
NoMark ==
    [set |-> FALSE, valid |-> FALSE, rule |-> "A", time |-> 0, since |-> 0,
     tokens |-> 0, debited |-> 0]
VoidMark == [NoMark EXCEPT !.set = TRUE]

Touched(m, ids) ==
    IF m.set /\ m.rule \in ids THEN VoidMark ELSE m

CostOf(cost, r) ==
    IF r \in CostKeys(cost)
    THEN cost[CHOOSE i \in 1..Len(cost) : cost[i][1] = r][2]
    ELSE 0

Debited(m, rs, cost) ==
    IF m.set /\ m.valid /\ m.rule \in Known(rs)
    THEN [m EXCEPT !.debited = @ + CostOf(cost, m.rule)]
    ELSE m

\* --------------------------------------------------------------------- Init
MTInit(list) ==
    /\ rules = RulesOf(list)
    /\ queue = <<>>
    /\ running = FALSE
    /\ req = [i \in 1..MaxRequests |-> "none"]
    /\ pc = "idle"
    /\ last_timestamp = 0
    /\ processed = 0
    /\ wake_at = 0
    /\ now = 0
    /\ ncalls = 0
    /\ mark = NoMark

\* ------------------------------------------------------------ caller actions
\* throttle(cost) up to its "await future"
Throttle(cost) ==
    /\ Suspended
    /\ ncalls < MaxRequests
    /\ ncalls' = ncalls + 1
    /\ LET result == ThrottleOutcome(rules, queue, cost) IN
       IF result = "queued"
          THEN /\ req' = [req EXCEPT ![ncalls + 1] = "pending"]
               /\ queue' = Append(queue, [id |-> ncalls + 1, cost |-> cost])
               /\ IF ~running
                  THEN running' = TRUE /\ pc' = "scheduled"
                  ELSE UNCHANGED <<running, pc>>
          ELSE /\ req' = [req EXCEPT ![ncalls + 1] = result]
               /\ UNCHANGED <<queue, running, pc>>
    /\ UNCHANGED <<rules, last_timestamp, processed, wake_at, now>>
    /\ UNCHANGED <<mark, syncVars, auxVars>>

\* the caller's task is cancelled while it awaits its future
Cancel(i) ==
    /\ Suspended
    /\ req[i] = "pending"
    /\ Cardinality({j \in 1..MaxRequests : req[j] = "cancelled"}) < MaxCancels
    /\ req' = [req EXCEPT ![i] = "cancelled"]
    /\ UNCHANGED <<rules, queue, running, pc, last_timestamp, processed, wake_at,
                   now, ncalls>>
    /\ UNCHANGED <<mark, syncVars, auxVars>>

add_rule(rule) ==
    /\ Suspended
    /\ rules' = [rules EXCEPT ![rule.id] =
                    ThrottleRule(rule.id, rule.capacity, rule.refill_rate, rule.tokens)]
    /\ UNCHANGED <<queue, running, req, pc, last_timestamp, processed, wake_at,
                   now, ncalls>>
    /\ mark' = Touched(mark, {rule.id})
    /\ UNCHANGED <<syncVars, auxVars>>

remove_rule(rule_id) ==
    /\ Suspended
    /\ rules' = [rules EXCEPT ![rule_id] = NoRule]
    /\ UNCHANGED <<queue, running, req, pc, last_timestamp, processed, wake_at,
                   now, ncalls>>
    /\ UNCHANGED <<mark, syncVars, auxVars>>

reset ==
    /\ Suspended
    /\ rules' = FillAll(rules)
    /\ UNCHANGED <<queue, running, req, pc, last_timestamp, processed, wake_at,
                   now, ncalls>>
    /\ mark' = Touched(mark, Known(rules))
    /\ UNCHANGED <<syncVars, auxVars>>

set_tokens(rule_id, tokens) ==
    /\ Suspended
    /\ rules' = IF rule_id \in Known(rules)
                THEN [rules EXCEPT ![rule_id].tokens =
                         ClampTokens(tokens, rules[rule_id].capacity)]
                ELSE rules
    /\ UNCHANGED <<queue, running, req, pc, last_timestamp, processed, wake_at,
                   now, ncalls>>
    /\ mark' = Touched(mark, {rule_id} \cap Known(rules))
    /\ UNCHANGED <<syncVars, auxVars>>

\* the wall clock advances while every coroutine is suspended
Tick ==
    /\ Suspended
    /\ now < MaxTime
    /\ now' = now + 1
    /\ UNCHANGED <<rules, queue, running, req, pc, last_timestamp, processed,
                   wake_at, ncalls>>
    /\ UNCHANGED <<mark, syncVars, auxVars>>

\* the wall clock advances beyond MaxTime.  The driver uses clock readings
\* only through their differences, and an elapsed time of MaxTime fills every
\* rule to its capacity, so the readings are kept relative to the latest one:
\* the stored readings move back instead of now moving on.
LateTick ==
    /\ Suspended
    /\ now = MaxTime
    /\ last_timestamp' = Max(last_timestamp - 1, 0)
    /\ wake_at' = Max(wake_at - 1, 0)
    /\ UNCHANGED <<rules, queue, running, req, pc, processed, now, ncalls>>
    /\ UNCHANGED <<mark, syncVars, auxVars>>

\* time.time() is the wall clock: it is set back by one unit (a clock
\* adjustment) while every coroutine is suspended.  asyncio.sleep runs on the
\* monotonic clock of the event loop, so the wall-clock reading at which a
\* pending sleep ends moves back with it.
ClockSetBack ==
    /\ Suspended
    /\ now > 0
    /\ set_back < MaxSetBacks
    /\ now' = now - 1
    /\ set_back' = set_back + 1
    /\ wake_at' = IF pc = "sleep" THEN wake_at - 1 ELSE wake_at
    /\ UNCHANGED <<rules, queue, running, req, pc, last_timestamp, processed,
                   ncalls>>
    /\ UNCHANGED <<mark, syncVars, returned, heap, table, held, eaVars, thVars, adVars,
                   extVars>>

\* ------------------------------------------------------------- driver (_loop)
\* lines 127-136, or line 127 and the return: one pass of the loop up to its
\* drain loop.  lt is last_timestamp on entry.
StartPass(lt) ==
    IF running /\ Len(queue) > 0
    THEN /\ rules' = _refill_tokens(rules, Elapsed(now, lt))
         /\ last_timestamp' = now
         /\ processed' = 0
         /\ pc' = "drain"
    ELSE \* the coroutine returns and its locals are gone
         /\ pc' = "idle"
         /\ last_timestamp' = 0
         /\ processed' = 0
         /\ UNCHANGED rules

\* line 125: the task created by ensure_future starts and runs, without an
\* await, to the drain loop of its first pass
DriverStart ==
    /\ pc = "scheduled"
    /\ StartPass(now)
    /\ UNCHANGED <<queue, running, req, wake_at, now, ncalls>>
    /\ UNCHANGED <<mark, syncVars, auxVars>>

\* lines 127-136: the next pass, entered without an await after a pass that
\* admitted something and left requests queued
DriverRefill ==
    /\ pc = "loop"
    /\ StartPass(last_timestamp)
    /\ UNCHANGED <<queue, running, req, wake_at, now, ncalls>>
    /\ UNCHANGED <<mark, syncVars, auxVars>>

\* (mutant) the pass admits the first request of the queue that can be
\* processed instead of stopping at a blocked head
DriverAdmitFirstAffordable ==
    /\ pc = "drain"
    /\ \E k \in 1..Len(queue) :
        /\ _can_process(rules, queue[k].cost) = "yes"
        /\ \A j \in 1..(k-1) : _can_process(rules, queue[j].cost) # "yes"
        /\ rules' = _consume_tokens(rules, queue[k].cost)
        /\ req' = IF req[queue[k].id] = "pending"
                  THEN [req EXCEPT ![queue[k].id] = "done"]
                  ELSE req
        /\ queue' = SubSeq(queue, 1, k-1) \o SubSeq(queue, k+1, Len(queue))
        /\ mark' = Debited(mark, rules, queue[k].cost)
    /\ processed' = processed + 1
    /\ pc' = IF (processed + 1) % YieldEvery = 0 THEN "yield" ELSE "drain"
    /\ UNCHANGED <<running, last_timestamp, wake_at, now, ncalls>>
    /\ UNCHANGED <<syncVars, auxVars>>

\* lines 137-149: the head can be processed
DriverAdmit ==
    /\ pc = "drain"
    /\ Len(queue) > 0
    /\ LET item == Head(queue) IN
       /\ _can_process(rules, item.cost) = "yes"
       /\ rules' = _consume_tokens(rules, item.cost)
       /\ req' = IF req[item.id] = "pending"
                 THEN [req EXCEPT ![item.id] = "done"]
                 ELSE req
       /\ queue' = Tail(queue)
       /\ processed' = processed + 1
       /\ pc' = IF (processed + 1) % YieldEvery = 0 THEN "yield" ELSE "drain"
    /\ UNCHANGED <<running, last_timestamp, wake_at, now, ncalls>>
    /\ mark' = Debited(mark, rules, Head(queue).cost)
    /\ UNCHANGED <<syncVars, auxVars>>

\* line 88: _can_process raises ValueError, which ends the _loop task
DriverRaise ==
    /\ pc = "drain"
    /\ Len(queue) > 0
    /\ _can_process(rules, Head(queue).cost) = "raise"
    /\ pc' = "crashed"
    \* the coroutine is gone and its locals with it
    /\ last_timestamp' = 0
    /\ processed' = 0
    /\ UNCHANGED <<rules, queue, running, req, wake_at, now, ncalls>>
    /\ UNCHANGED <<mark, syncVars, auxVars>>

\* (mutant) the loop ends on an empty queue without clearing self.running
DriverBlockedKeepsRunning ==
    /\ pc = "drain"
    /\ (Len(queue) > 0 => _can_process(rules, Head(queue).cost) = "no")
    /\ IF processed = 0 /\ Len(queue) > 0
       THEN /\ wake_at' = now + Min(_calculate_wait_time(rules, Head(queue).cost),
                                     config.delay)
            /\ pc' = "sleep"
            /\ UNCHANGED <<last_timestamp, processed>>
       ELSE IF Len(queue) = 0
       THEN /\ pc' = "idle"
            /\ last_timestamp' = 0
            /\ processed' = 0
            /\ UNCHANGED wake_at
       ELSE /\ pc' = "loop"
            /\ UNCHANGED <<last_timestamp, processed, wake_at>>
    /\ UNCHANGED <<rules, queue, running, req, now, ncalls>>
    /\ UNCHANGED <<mark, syncVars, auxVars>>

\* lines 150-162: the drain loop ends (queue empty or head blocked).  With
\* nothing admitted and a request waiting the driver sleeps; with the queue
\* empty it clears running and the while test of line 127 ends the coroutine;
\* otherwise it goes round again.
DriverBlocked ==
    /\ pc = "drain"
    /\ (Len(queue) > 0 => _can_process(rules, Head(queue).cost) = "no")
    /\ IF processed = 0 /\ Len(queue) > 0
       THEN /\ wake_at' = now + Min(_calculate_wait_time(rules, Head(queue).cost),
                                     config.delay)
            /\ pc' = "sleep"
            /\ UNCHANGED <<running, last_timestamp, processed>>
       ELSE IF Len(queue) = 0
       THEN /\ running' = FALSE
            /\ pc' = "idle"
            /\ last_timestamp' = 0
            /\ processed' = 0
            /\ UNCHANGED wake_at
       ELSE /\ pc' = "loop"
            /\ UNCHANGED <<running, last_timestamp, processed, wake_at>>
    /\ UNCHANGED <<rules, queue, req, now, ncalls>>
    /\ UNCHANGED <<mark, syncVars, auxVars>>

\* an await returns: sleep(0) at line 149 resumes the drain loop; the sleep of
\* line 158, not before its delay has passed, continues at line 161 and runs
\* the next pass up to its drain loop
DriverWake ==
    /\ \/ /\ pc = "yield"
          /\ pc' = "drain"
          /\ UNCHANGED <<rules, running, last_timestamp, processed>>
       \/ /\ pc = "sleep"
          /\ now >= wake_at
          /\ IF Len(queue) = 0
             THEN /\ running' = FALSE
                  /\ pc' = "idle"
                  /\ last_timestamp' = 0
                  /\ processed' = 0
                  /\ UNCHANGED rules
             ELSE /\ StartPass(last_timestamp)
                  /\ UNCHANGED running
    /\ wake_at' = 0
    /\ UNCHANGED <<queue, req, now, ncalls>>
    /\ UNCHANGED <<mark, syncVars, auxVars>>

\* the observer starts its interval on rule r (once per behaviour)
Mark(r) ==
    /\ Suspended
    /\ ~mark.set
    /\ r \in Known(rules)
    /\ mark' = [set |-> TRUE, valid |-> TRUE, rule |-> r,
                time |-> now,
                since |-> IF pc \in {"yield", "sleep"} THEN last_timestamp ELSE now,
                tokens |-> rules[r].tokens,
                debited |-> 0]
    /\ UNCHANGED <<rules, queue, running, req, pc, last_timestamp, processed,
                   wake_at, now, ncalls>>
    /\ UNCHANGED <<syncVars, auxVars>>

\* ===================================================================== Part II
\* The blocking rate limiter: MinimalExchange of test_throttle_standalone.py,
\* which carries the throttle logic of Exchange.fetch2.

\* number of threads that call fetch2, each once
NThreads == 2
\* time.time() is finer than a millisecond: clock ticks per millisecond
TicksPerMs == 2
\* the clock of Part II runs from its start to this many ticks later
MaxSyncTime == 8
\* how many times a thread takes the lock it already holds
MaxDepth == 2
\* Part IV: number of throttle() calls on the ExchangeAwareThrottler and the
\* last clock reading at which one is made
MaxEACalls == 3
MaxEATime == 3
\* Part V: number of throttle() calls on the Throttler and the last clock
\* reading of a behaviour
MaxThCalls == 3
MaxThTime == 2
\* Part VI: number of adjustments of current_delay in a behaviour, and of
\* throttle calls that sleep at one time
MaxAdjusts == 3
MaxSleepers == 1

Threads == 1..NThreads
\* the MinimalExchange instances: one and another
Instances == {1, 2}
\* the locals of a thread that is not inside fetch2
NoLocals == [self |-> 1, cost |-> 1, wake |-> 0, ms |-> 0]

\* MinimalExchange(rate_limit, enable_rate_limit); rateLimit in milliseconds
MinimalExchange(rate_limit, enable_rate_limit) ==
    [rateLimit |-> rate_limit, enableRateLimit |-> enable_rate_limit]
\* the instances under test; the last has a rateLimit beyond the clock's
\* reading at the start
Exchanges ==
    {MinimalExchange(2, TRUE), MinimalExchange(2, FALSE), MinimalExchange(5, TRUE)}
\* the costs callers pass to fetch2 (1 is the default)
Costs == {1, 2}
\* time.time() is the time since the epoch.  The model starts it 4 ms after
\* the epoch, in ticks: at or beyond rateLimit * cost of the instances with
\* rateLimit 2, short of it for the instance with rateLimit 5.
StartOfClock == 4 * TicksPerMs

\* int(time.time() * 1000): the clock truncated to whole milliseconds
milliseconds == clock \div TicksPerMs

\* (mutant) one lock for all instances, as a class attribute would be
SharedLock(i) == 1

\* line 24: self._throttle_lock = threading.RLock(), a lock of its own for
\* every instance; locks are named after their instance
LockOf(i) == i

\* the instance a thread calls, and that instance's lock
Self(t) == tlocal[t].self
LockHeldFor(t) == lock[LockOf(Self(t))]

\* (mutant) no lock: every thread enters at once
CanAcquireAlways(t) == TRUE

\* RLock.acquire succeeds for t when the lock is free or t owns it already
CanAcquire(t) == LockHeldFor(t).owner = 0 \/ LockHeldFor(t).owner = t

\* (mutant) the cost is not multiplied in
ThrottleDelayIgnoringCost(ex, last_ts, now_ms, cost) ==
    LET elapsed == now_ms - last_ts
        sleep_time == ex.rateLimit
    IN  IF elapsed < sleep_time THEN sleep_time - elapsed ELSE 0

\* (mutant) a fresh instance counts as having just made a request
ThrottleDelayFromNow(ex, last_ts, now_ms, cost) ==
    LET elapsed == IF last_ts = 0 THEN 0 ELSE now_ms - last_ts
        sleep_time == ex.rateLimit * cost
    IN  IF elapsed < sleep_time THEN sleep_time - elapsed ELSE 0

\* the delay throttle(cost) sleeps, 0 when it does not sleep (lines 32-38)
ThrottleDelay(ex, last_ts, now_ms, cost) ==
    LET elapsed == now_ms - last_ts
        sleep_time == ex.rateLimit * cost
    IN  IF elapsed < sleep_time THEN sleep_time - elapsed ELSE 0

\* the instances after MinimalExchange(...) for each, no thread started
SyncInit(exs) ==
    /\ exchange = exs
    /\ lastRestRequestTimestamp = [i \in Instances |-> 0]
    /\ lock = [i \in Instances |-> [owner |-> 0, depth |-> 0]]
    /\ tpc = [t \in Threads |-> "start"]
    /\ tlocal = [t \in Threads |-> NoLocals]
    /\ clock = StartOfClock
    /\ exits = [i \in Instances |-> <<>>]

\* (mutant) fetch2 throttles whether or not rate limiting is enabled
Fetch2AlwaysThrottles(t, i, cost) ==
    /\ tpc[t] = "start"
    /\ tlocal' = [tlocal EXCEPT ![t] = [self |-> i, cost |-> cost, wake |-> 0, ms |-> 0]]
    /\ tpc' = [tpc EXCEPT ![t] = "acquire"]
    /\ UNCHANGED <<exchange, lastRestRequestTimestamp, lock, clock, exits>>
    /\ UNCHANGED <<mtVars, auxVars>>

\* thread t calls fetch2(path, cost) on instance i: line 42
Fetch2(t, i, cost) ==
    /\ tpc[t] = "start"
    /\ tlocal' = [tlocal EXCEPT ![t] = [self |-> i, cost |-> cost, wake |-> 0, ms |-> 0]]
    /\ tpc' = [tpc EXCEPT ![t] = IF exchange[i].enableRateLimit
                                 THEN "acquire" ELSE "stamp"]
    /\ UNCHANGED <<exchange, lastRestRequestTimestamp, lock, clock, exits>>
    /\ UNCHANGED <<mtVars, auxVars>>

\* line 44: with self._throttle_lock
Acquire(t) ==
    /\ tpc[t] = "acquire"
    /\ CanAcquire(t)
    /\ lock' = [lock EXCEPT ![LockOf(Self(t))] =
                    [owner |-> t, depth |-> LockHeldFor(t).depth + 1]]
    /\ tpc' = [tpc EXCEPT ![t] = "throttle"]
    /\ UNCHANGED <<exchange, lastRestRequestTimestamp, tlocal, clock, exits>>
    /\ UNCHANGED <<mtVars, auxVars>>

\* line 45, throttle(cost) up to its time.sleep
ThrottleCall(t) ==
    /\ tpc[t] = "throttle"
    /\ LET d == ThrottleDelay(exchange[Self(t)],
                              lastRestRequestTimestamp[Self(t)], milliseconds,
                              tlocal[t].cost)
       IN  IF d > 0
           THEN /\ tlocal' = [tlocal EXCEPT ![t].wake = clock + d * TicksPerMs]
                /\ tpc' = [tpc EXCEPT ![t] = "sleeping"]
           ELSE /\ tpc' = [tpc EXCEPT ![t] = "stamp"]
                /\ UNCHANGED tlocal
    /\ UNCHANGED <<exchange, lastRestRequestTimestamp, lock, clock, exits>>
    /\ UNCHANGED <<mtVars, auxVars>>

\* time.sleep returns, not before the delay has passed on the clock
SleepReturns(t) ==
    /\ tpc[t] = "sleeping"
    /\ clock >= tlocal[t].wake
    /\ tpc' = [tpc EXCEPT ![t] = "stamp"]
    /\ tlocal' = [tlocal EXCEPT ![t].wake = 0]
    /\ UNCHANGED <<exchange, lastRestRequestTimestamp, lock, clock, exits>>
    /\ UNCHANGED <<mtVars, auxVars>>

\* lines 46 and 48, right-hand side: self.milliseconds() is evaluated.  With
\* the lock held this reading is the instant the call leaves the throttle
\* and is recorded in exits.
ReadClock(t) ==
    /\ tpc[t] = "stamp"
    /\ tlocal' = [tlocal EXCEPT ![t].ms = milliseconds]
    /\ exits' = IF exchange[Self(t)].enableRateLimit
                THEN [exits EXCEPT ![Self(t)] = Append(@, clock)]
                ELSE exits
    /\ tpc' = [tpc EXCEPT ![t] = "store"]
    /\ UNCHANGED <<exchange, lastRestRequestTimestamp, lock, clock>>
    /\ UNCHANGED <<mtVars, auxVars>>

\* (mutant) the timestamp is stored but the lock is kept
StampKeepsLock(t) ==
    /\ tpc[t] = "store"
    /\ lastRestRequestTimestamp' =
          [lastRestRequestTimestamp EXCEPT ![Self(t)] = tlocal[t].ms]
    /\ tpc' = [tpc EXCEPT ![t] = "done"]
    /\ tlocal' = [tlocal EXCEPT ![t] = NoLocals]
    /\ UNCHANGED <<exchange, clock, exits, lock>>
    /\ UNCHANGED <<mtVars, auxVars>>

\* lines 46 and 48: the value read is stored in lastRestRequestTimestamp;
\* with the lock held the with-block ends here and releases it
Stamp(t) ==
    /\ tpc[t] = "store"
    /\ lastRestRequestTimestamp' =
          [lastRestRequestTimestamp EXCEPT ![Self(t)] = tlocal[t].ms]
    /\ IF exchange[Self(t)].enableRateLimit
       THEN lock' = [lock EXCEPT ![LockOf(Self(t))] =
                           IF @.depth = 1 THEN [owner |-> 0, depth |-> 0]
                           ELSE [@ EXCEPT !.depth = @ - 1]]
       ELSE UNCHANGED lock
    /\ tpc' = [tpc EXCEPT ![t] = "done"]
    \* fetch2 returns and its locals are gone
    /\ tlocal' = [tlocal EXCEPT ![t] = NoLocals]
    /\ UNCHANGED <<exchange, clock, exits>>
    /\ UNCHANGED <<mtVars, auxVars>>

\* the clock of Part II advances
SyncTick ==
    /\ clock < StartOfClock + MaxSyncTime
    /\ clock' = clock + 1
    /\ UNCHANGED <<exchange, lastRestRequestTimestamp, lock, tpc, tlocal, exits>>
    /\ UNCHANGED <<mtVars, auxVars>>

\* threading.RLock, line 24, used through acquire(blocking=False) and
\* release() as the lock tests do
\* (mutant) a plain Lock: the owner is refused as well
RLockGrantsWhenFree(l, t) == l.owner = 0
\* acquire by thread t succeeds when the lock is free or t owns it
RLockGrants(l, t) == l.owner = 0 \/ l.owner = t
RLockAcquired(l, t) == [owner |-> t, depth |-> l.depth + 1]
\* release undoes one acquire; the last one frees the lock
RLockReleased(l) ==
    IF l.depth = 1 THEN [owner |-> 0, depth |-> 0]
    ELSE [l EXCEPT !.depth = @ - 1]

\* thread t, outside fetch2, calls exchange._throttle_lock.acquire(blocking=False)
\* on instance i and gets TRUE or FALSE back
AcquireDirect(t, i) ==
    /\ tpc[t] \in {"start", "done"}
    /\ lock[LockOf(i)].depth < MaxDepth
    /\ IF RLockGrants(lock[LockOf(i)], t)
       THEN /\ lock' = [lock EXCEPT ![LockOf(i)] = RLockAcquired(@, t)]
            /\ returned' = [op |-> "acquire", value |-> TRUE]
       ELSE /\ lock' = lock
            /\ returned' = [op |-> "acquire", value |-> FALSE]
    /\ UNCHANGED <<exchange, lastRestRequestTimestamp, tpc, tlocal, clock, exits>>
    /\ UNCHANGED <<mtVars, heap, table, held, custVars>>

\* thread t, outside fetch2, calls exchange._throttle_lock.release() on a lock
\* it owns
ReleaseDirect(t, i) ==
    /\ tpc[t] \in {"start", "done"}
    /\ lock[LockOf(i)].owner = t
    /\ lock' = [lock EXCEPT ![LockOf(i)] = RLockReleased(@)]
    /\ returned' = [op |-> "release"]
    /\ UNCHANGED <<exchange, lastRestRequestTimestamp, tpc, tlocal, clock, exits>>
    /\ UNCHANGED <<mtVars, heap, table, held, custVars>>

\* time passes while a thread is in time.sleep: the clock reaches every wake-up
SleepTick ==
    /\ \E t \in Threads : tpc[t] = "sleeping" /\ clock < tlocal[t].wake
    /\ clock' = clock + 1
    /\ UNCHANGED <<exchange, lastRestRequestTimestamp, lock, tpc, tlocal, exits>>
    /\ UNCHANGED <<mtVars, auxVars>>

\* ------------------------------------------------------------------ queries
\* nothing was asked yet
NoReturn == [op |-> "none"]

\* a quotient a / b of the code's float arithmetic, kept as a fraction
Quotient(a, b) == [num |-> a, den |-> b]
OneMinus(x) == [num |-> x.den - x.num, den |-> x.den]

\* (mutant) the fill level instead of the utilization
FillLevel(tokens, capacity) == Quotient(tokens, capacity)

\* line 78: 1 - (rule.tokens / rule.capacity)
Utilization(tokens, capacity) == OneMinus(Quotient(tokens, capacity))

\* get_status(): a new dict with one entry for every rule of self.rules
get_status ==
    /\ Suspended
    /\ returned' =
          [op |-> "get_status",
           value |-> [r \in Known(rules) |->
                        [tokens |-> rules[r].tokens,
                         capacity |-> rules[r].capacity,
                         utilization |-> Utilization(rules[r].tokens,
                                                     rules[r].capacity)]]]
    /\ UNCHANGED <<mtVars, syncVars, heap, table, held, custVars>>

\* get_queue_length()
get_queue_length ==
    /\ Suspended
    /\ returned' = [op |-> "get_queue_length", value |-> Len(queue)]
    /\ UNCHANGED <<mtVars, syncVars, heap, table, held, custVars>>

\* is_running()
is_running ==
    /\ Suspended
    /\ returned' = [op |-> "is_running", value |-> running]
    /\ UNCHANGED <<mtVars, syncVars, heap, table, held, custVars>>

\* ==================================================================== Part III
\* The rule table by object identity: which ThrottleRule objects the
\* MultiThrottler stores, and which the caller holds.

\* number of rule objects the caller holds at a time
MaxHeld == 1

Addresses == 1..(MaxHeld + Cardinality(RuleIds) + 1)
NoObject == [free |-> TRUE]
\* the value the caller writes into a field of its own object
FieldValues == {0}
\* the costs the driver debits in Part III
DebitVectors == {c \in CostVectors : \A i \in 1..Len(c) : c[i][2] > 0}
MutableFields == {"tokens", "capacity", "refill_rate"}

\* the address of a new object
Fresh(h) ==
    CHOOSE a \in Addresses :
        /\ h[a] = NoObject
        /\ \A b \in Addresses : b < a => h[b] # NoObject

\* self.rules as the driver reads it: rule id -> the fields of the stored object
View(h, t) == [r \in RuleIds |-> IF t[r] = 0 THEN NoRule ELSE h[t[r]]]

\* the stored objects after the driver has written rs into them
Stored(h, t, rs) ==
    [a \in Addresses |->
        IF \E r \in RuleIds : t[r] = a
        THEN rs[CHOOSE r \in RuleIds : t[r] = a]
        ELSE h[a]]

\* (mutant) the table keeps the caller's object itself
KeepReference(h, a) == a

\* lines 60-63 of add_rule, lines 48-51 of __init__: the address of the object
\* that goes into self.rules for the caller's object at address a, a new
\* ThrottleRule built from its fields
CloneAddress(h, a) == Fresh(h)

\* the heap and the table after self.rules[rule.id] = <object at b with the
\* fields of the object at a>; the object that was stored before is released
Insert(h, t, hs, a, b) ==
    LET old == t[h[a].id]
        h1  == [h EXCEPT ![b] = ThrottleRule(h[a].id, h[a].capacity,
                                             h[a].refill_rate, h[a].tokens)]
    IN  [heap  |-> IF old # 0 /\ old # b /\ old \notin hs
                   THEN [h1 EXCEPT ![old] = NoObject]
                   ELSE h1,
         table |-> [t EXCEPT ![h[a].id] = b]]

\* the caller builds the rules of the list, then MultiThrottler(list)
RECURSIVE Construct(_, _, _)
Construct(list, i, m) ==
    IF i > Len(list) THEN m
    ELSE LET a  == Fresh(m.heap)
             h1 == [m.heap EXCEPT ![a] = list[i]]
             m1 == Insert(h1, m.table, m.held \cup {a}, a, CloneAddress(h1, a))
         IN  Construct(list, i + 1, [heap |-> m1.heap, table |-> m1.table,
                                     held |-> m.held \cup {a}])

HeapInit(list) ==
    LET m == Construct(list, 1, [heap  |-> [a \in Addresses |-> NoObject],
                                 table |-> [r \in RuleIds |-> 0],
                                 held  |-> {}])
    IN  /\ heap = m.heap
        /\ table = m.table
        /\ held = m.held

\* the caller builds a rule object: ThrottleRule(...)
NewRule(rule) ==
    /\ Cardinality(held) < MaxHeld
    /\ heap' = [heap EXCEPT ![Fresh(heap)] = rule]
    /\ held' = held \cup {Fresh(heap)}
    /\ UNCHANGED table
    /\ UNCHANGED <<mtVars, syncVars, returned, custVars>>

\* add_rule(rule) with the caller's object at address a
AddRuleObject(a) ==
    /\ a \in held
    /\ LET m == Insert(heap, table, held, a, CloneAddress(heap, a)) IN
       /\ heap' = m.heap
       /\ table' = m.table
    /\ UNCHANGED held
    /\ UNCHANGED <<mtVars, syncVars, returned, custVars>>

\* the caller assigns to a field of its own object
CallerSets(a, field, v) ==
    /\ a \in held
    /\ heap' = [heap EXCEPT ![a] = [@ EXCEPT ![field] = v]]
    /\ UNCHANGED <<table, held>>
    /\ UNCHANGED <<mtVars, syncVars, returned, custVars>>

\* a refill of the driver, written into the stored objects
RefillObjects(elapsed) ==
    /\ heap' = Stored(heap, table, _refill_tokens(View(heap, table), elapsed))
    /\ UNCHANGED <<table, held>>
    /\ UNCHANGED <<mtVars, syncVars, returned, custVars>>

\* a debit of the driver, written into the stored objects
ConsumeObjects(cost) ==
    /\ _can_process(View(heap, table), cost) = "yes"
    /\ heap' = Stored(heap, table, _consume_tokens(View(heap, table), cost))
    /\ UNCHANGED <<table, held>>
    /\ UNCHANGED <<mtVars, syncVars, returned, custVars>>

\* ===================================================================== Part IV
\* ExchangeAwareThrottler, base/throttle.py lines 139-184.

\* the coroutines that call throttle
EACallers == {1, 2}
\* the costs they pass (1.0 is the default)
EACosts == {1}
\* the table of lines 149-153, with the budgets scaled down to 2 requests per
\* window of 2 clock units
exchange_limits == [binance |-> [requests |-> 2, window |-> 2]]
\* an exchange of the table and one that is not in it
ExchangeIds == {"binance", "other"}
\* asyncio.sleep(0.1) of line 167, in clock units
DefaultDelay == 1

NoLimit == [requests |-> 0, window |-> 0, last_reset |-> -1]
EAIdle == [pc |-> "idle", cost |-> 0, wake |-> 0]

\* _initialize_limits, lines 147-161
InitialLimits(id) ==
    IF id \in DOMAIN exchange_limits
    THEN [requests   |-> exchange_limits[id].requests,
          window     |-> exchange_limits[id].window,
          last_reset |-> 0]
    ELSE NoLimit

\* lines 142-145, no call made yet
EAInit(id) ==
    /\ exchange_id = id
    /\ limits = InitialLimits(id)
    /\ ea_call = [c \in EACallers |-> EAIdle]
    /\ ea_now = 0
    /\ ea_ncalls = 0

\* lines 174 and 181: limit['requests'] = limit['requests']
ResetRequests(limit) == limit.requests

\* lines 173-175: the window has passed
WindowStart(limit, t) ==
    IF t - limit.last_reset > limit.window
    THEN [limit EXCEPT !.requests = ResetRequests(limit), !.last_reset = t]
    ELSE limit

EAFrame == UNCHANGED <<mtVars, syncVars, returned, heap, table, held, thVars, adVars, set_back,
                       extVars>>

\* throttle(cost) from its call to its first await or, without one, its return
EAThrottle(c, cost) ==
    /\ ea_call[c].pc = "idle"
    /\ ea_ncalls < MaxEACalls
    /\ ea_ncalls' = ea_ncalls + 1
    /\ IF limits = NoLimit
       THEN \* lines 165-168
            /\ ea_call' = [ea_call EXCEPT ![c] =
                    [pc |-> "nap", cost |-> cost, wake |-> ea_now + DefaultDelay]]
            /\ UNCHANGED limits
       ELSE LET limit == WindowStart(limits, ea_now)
            IN  IF limit.requests <= 0
                THEN \* lines 178-180
                     /\ limits' = limit
                     /\ ea_call' = [ea_call EXCEPT ![c] =
                            [pc |-> "wait", cost |-> cost,
                             wake |-> ea_now + (limit.window - (ea_now - limit.last_reset))]]
                ELSE \* line 184
                     /\ limits' = [limit EXCEPT !.requests = @ - cost]
                     /\ ea_call' = [ea_call EXCEPT ![c] =
                            [pc |-> "idle", cost |-> cost, wake |-> 0]]
    /\ UNCHANGED <<exchange_id, ea_now>>
    /\ EAFrame

\* lines 181-184: the sleep of line 180 is over
EAResume(c) ==
    /\ ea_call[c].pc = "wait"
    /\ ea_now >= ea_call[c].wake
    /\ limits' = [limits EXCEPT !.requests = ResetRequests(limits) - ea_call[c].cost,
                                !.last_reset = ea_now]
    /\ ea_call' = [ea_call EXCEPT ![c].pc = "idle", ![c].wake = 0]
    /\ UNCHANGED <<exchange_id, ea_now, ea_ncalls>>
    /\ EAFrame

\* line 168: the sleep of line 167 is over
EANapOver(c) ==
    /\ ea_call[c].pc = "nap"
    /\ ea_now >= ea_call[c].wake
    /\ ea_call' = [ea_call EXCEPT ![c].pc = "idle", ![c].wake = 0]
    /\ UNCHANGED <<exchange_id, limits, ea_now, ea_ncalls>>
    /\ EAFrame

\* the clock of Part IV advances, at least until every sleeper is due
EATick ==
    /\ \/ ea_now < MaxEATime
       \/ \E c \in EACallers : ea_call[c].pc # "idle" /\ ea_now < ea_call[c].wake
    /\ ea_now' = ea_now + 1
    /\ UNCHANGED <<exchange_id, limits, ea_call, ea_ncalls>>
    /\ EAFrame

\* ====================================================================== Part V
\* Throttler of async_support/base/throttler.py.

\* rule ids: the legacy rule, a rule of a rule list, and an id no table has
ThRuleIds == {"default", "w", "x"}
ThRule(capacity, refill_rate, tokens) ==
    [capacity |-> capacity, refill_rate |-> refill_rate, tokens |-> tokens]
\* 'maxCapacity': 2000 of lines 53 and 155, scaled down to a short queue
ThMaxCapacity == 2
NoConfig == [absent |-> TRUE]
\* lines 48-56 with the defaults; delay in milliseconds
LegacyConfig ==
    [refillRate |-> 1, delay |-> 1, cost |-> 1, tokens |-> 0,
     maxCapacity |-> ThMaxCapacity, capacity |-> 1]
\* 0.001 s of line 144, in milliseconds
LooperDelay == 1

\* the cost argument: None, a number, or a dict from rule ids to numbers
NoCost == [kind |-> "none"]
ScalarCost(v) == [kind |-> "scalar", v |-> v]
DictCost(c) == [kind |-> "dict", c |-> c]
ThCosts ==
    { NoCost, ScalarCost(1), DictCost([w |-> 1]), DictCost([default |-> 1]),
      DictCost([x |-> 1]) }

\* Throttler([ThrottleRule('w', 2, 1, 2)]): lines 33-45
ThMultiInit ==
    /\ th_rules = [r \in ThRuleIds |-> IF r = "w" THEN ThRule(2, 1, 2) ELSE NoRule]
    /\ th_config = NoConfig
\* Throttler({}): lines 46-66
ThLegacyInit ==
    /\ th_rules = [r \in ThRuleIds |->
                      IF r = "default"
                      THEN ThRule(LegacyConfig.capacity, LegacyConfig.refillRate,
                                  LegacyConfig.tokens)
                      ELSE NoRule]
    /\ th_config = LegacyConfig
\* lines 26-31 and the time stamps of lines 45 and 66
ThInit ==
    /\ th_last = [r \in ThRuleIds |-> 0]
    /\ th_queue = <<>>
    /\ th_running = FALSE
    /\ th_req = [i \in 1..MaxThCalls |-> "none"]
    /\ th_pc = "idle"
    /\ th_wake = 0
    /\ th_now = 0
    /\ th_ncalls = 0

\* refill_tokens, lines 70-77
ThRefilled(rs, last, t) ==
    [r \in ThRuleIds |->
        IF rs[r] = NoRule THEN NoRule
        ELSE [rs[r] EXCEPT !.tokens =
                Min(rs[r].capacity, @ + rs[r].refill_rate * (t - last[r]))]]
\* line 77
ThStamped(rs, last, t) ==
    [r \in ThRuleIds |-> IF rs[r] = NoRule THEN last[r] ELSE t]
\* lines 80-81, 107-108: the legacy config mirrors the default rule's tokens
ThMirror(cfg, rs) ==
    IF cfg # NoConfig /\ rs["default"] # NoRule
    THEN [cfg EXCEPT !.tokens = rs["default"].tokens]
    ELSE cfg

\* lines 125-129: the cost of a request that passed None
EffectiveCost(cost, cfg) ==
    IF cost.kind = "none"
    THEN IF cfg # NoConfig THEN ScalarCost(cfg.cost) ELSE DictCost([default |-> 1])
    ELSE cost

\* can_consume, lines 83-98
can_consume(rs, cost) ==
    IF cost.kind = "scalar"
    THEN rs["default"] # NoRule /\ rs["default"].tokens >= cost.v
    ELSE \A r \in DOMAIN cost.c : rs[r] # NoRule /\ rs[r].tokens >= cost.c[r]

\* consume, lines 100-114
consume(rs, cost) ==
    [r \in ThRuleIds |->
        IF rs[r] = NoRule THEN NoRule
        ELSE IF cost.kind = "scalar"
             THEN IF r = "default" THEN [rs[r] EXCEPT !.tokens = @ - cost.v] ELSE rs[r]
             ELSE IF r \in DOMAIN cost.c
                  THEN [rs[r] EXCEPT !.tokens = @ - cost.c[r]] ELSE rs[r]]

\* lines 155-156
ThMaxCap == IF th_config # NoConfig THEN th_config.maxCapacity ELSE ThMaxCapacity

ThFrame == UNCHANGED <<mtVars, syncVars, returned, heap, table, held, eaVars, adVars, set_back,
                       extVars>>

\* throttle(cost), lines 151-165, up to its await
ThThrottle(cost) ==
    /\ th_ncalls < MaxThCalls
    /\ th_ncalls' = th_ncalls + 1
    /\ LET id == th_ncalls + 1
       IN  IF Len(th_queue) > ThMaxCap
           THEN /\ th_req' = [th_req EXCEPT ![id] = "QueueFull"]
                /\ UNCHANGED <<th_queue, th_running, th_pc>>
           ELSE /\ th_req' = [th_req EXCEPT ![id] = "pending"]
                /\ th_queue' = Append(th_queue, [id |-> id, cost |-> cost])
                /\ th_running' = TRUE
                /\ th_pc' = IF th_running THEN th_pc ELSE "scheduled"
    /\ UNCHANGED <<th_rules, th_config, th_last, th_wake, th_now>>
    /\ ThFrame

\* the looper can go on: it was scheduled, or its sleep is over
ThResumable ==
    \/ th_pc \in {"scheduled", "yield"}
    \/ th_pc = "sleep" /\ th_now >= th_wake
\* lines 139-141 after the sleep(0) of line 137
ThRunning ==
    IF th_pc = "yield" /\ th_queue = <<>> THEN FALSE ELSE th_running

\* line 118 is false: the looper ends
ThStop ==
    /\ ThResumable
    /\ ~(ThRunning /\ th_queue # <<>>)
    /\ th_running' = ThRunning
    /\ th_pc' = "idle"
    /\ UNCHANGED <<th_rules, th_config, th_last, th_queue, th_req, th_wake,
                   th_now, th_ncalls>>
    /\ ThFrame

\* lines 119-137: one pass that admits the head of the queue
ThAdmit ==
    /\ ThResumable
    /\ ThRunning /\ th_queue # <<>>
    /\ LET rs   == ThRefilled(th_rules, th_last, th_now)
           item == Head(th_queue)
           cost == EffectiveCost(item.cost, th_config)
       IN  /\ can_consume(rs, cost)
           /\ th_rules' = consume(rs, cost)
           /\ th_config' = ThMirror(th_config, consume(rs, cost))
           /\ th_queue' = Tail(th_queue)
           /\ th_req' = [th_req EXCEPT ![item.id] = "done"]
    /\ th_last' = ThStamped(th_rules, th_last, th_now)
    /\ th_pc' = "yield"
    /\ UNCHANGED <<th_running, th_wake, th_now, th_ncalls>>
    /\ ThFrame

\* lines 119-131 and 144-145: the head cannot be paid, the looper sleeps
ThBlocked ==
    /\ ThResumable
    /\ ThRunning /\ th_queue # <<>>
    /\ LET rs   == ThRefilled(th_rules, th_last, th_now)
           cost == EffectiveCost(Head(th_queue).cost, th_config)
       IN  /\ ~can_consume(rs, cost)
           /\ th_rules' = rs
           /\ th_config' = ThMirror(th_config, rs)
    /\ th_last' = ThStamped(th_rules, th_last, th_now)
    /\ th_pc' = "sleep"
    /\ th_wake' = th_now + (IF th_config # NoConfig THEN th_config.delay ELSE LooperDelay)
    /\ UNCHANGED <<th_queue, th_running, th_req, th_now, th_ncalls>>
    /\ ThFrame

\* the clock of Part V advances
ThTick ==
    /\ th_now < MaxThTime
    /\ th_now' = th_now + 1
    /\ UNCHANGED <<th_rules, th_config, th_last, th_queue, th_running, th_req,
                   th_pc, th_wake, th_ncalls>>
    /\ ThFrame

\* ===================================================================== Part VI
\* AdaptiveThrottler, base/throttle.py lines 110-137.  Delays are fractions
\* num / den of a second, so that the factors 0.9 and 1.5 are exact.
Frac(n, d) == [num |-> n, den |-> d]
FracLeq(a, b) == a.num * b.den <= b.num * a.den
FracEq(a, b) == a.num * b.den = b.num * a.den
FracMax(a, b) == IF FracLeq(b, a) THEN a ELSE b
FracMin(a, b) == IF FracLeq(a, b) THEN a ELSE b
Times(a, n, d) == Frac(a.num * n, a.den * d)

\* the arguments of the constructor: base_delay 1 s, max_delay 2 s
AdaptiveArgs == { <<Frac(1, 1), Frac(2, 1)>> }

\* __init__, lines 113-118
AdaptiveThrottler(base_delay, max_delay) ==
    [base_delay |-> base_delay, max_delay |-> max_delay,
     current_delay |-> base_delay, success_count |-> 0, error_count |-> 0]

AdInit(base_delay, max_delay) ==
    /\ adaptive = AdaptiveThrottler(base_delay, max_delay)
    /\ ad_sleep = <<>>
    /\ ad_adjusts = 0

\* (mutant) on_error without the min of line 136
IncreasedUnclamped(a) == Times(a.current_delay, 3, 2)

\* (mutant) the delay goes down without a floor
ReducedUnclamped(a) == Times(a.current_delay, 9, 10)
\* line 128: max(self.base_delay, self.current_delay * 0.9)
Reduced(a) == FracMax(a.base_delay, Times(a.current_delay, 9, 10))
\* line 136: min(self.max_delay, self.current_delay * 1.5)
Increased(a) == FracMin(a.max_delay, Times(a.current_delay, 3, 2))

AdFrame == UNCHANGED <<mtVars, syncVars, returned, heap, table, held, eaVars, thVars, set_back,
                       extVars>>

\* throttle, lines 120-121, up to its await: asyncio.sleep(self.current_delay)
AdThrottle ==
    /\ Len(ad_sleep) < MaxSleepers
    /\ ad_sleep' = Append(ad_sleep, adaptive.current_delay)
    /\ UNCHANGED <<adaptive, ad_adjusts>>
    /\ AdFrame

\* the sleep of line 121 is over and throttle returns
AdThrottleReturns ==
    /\ Len(ad_sleep) > 0
    /\ ad_sleep' = Tail(ad_sleep)
    /\ UNCHANGED <<adaptive, ad_adjusts>>
    /\ AdFrame

\* on_success, lines 123-129
on_success ==
    LET a == [adaptive EXCEPT !.success_count = @ + 1]
    IN  /\ IF a.success_count >= SuccessThreshold
           THEN /\ ad_adjusts < MaxAdjusts
                /\ adaptive' = [a EXCEPT !.current_delay = Reduced(a),
                                         !.success_count = 0]
                /\ ad_adjusts' = ad_adjusts + 1
           ELSE /\ adaptive' = a
                /\ UNCHANGED ad_adjusts
        /\ UNCHANGED ad_sleep
        /\ AdFrame

\* on_error, lines 131-137
on_error ==
    LET a == [adaptive EXCEPT !.error_count = @ + 1]
    IN  /\ IF a.error_count >= ErrorThreshold
           THEN /\ ad_adjusts < MaxAdjusts
                /\ adaptive' = [a EXCEPT !.current_delay = Increased(a),
                                         !.error_count = 0]
                /\ ad_adjusts' = ad_adjusts + 1
           ELSE /\ adaptive' = a
                /\ UNCHANGED ad_adjusts
        /\ UNCHANGED ad_sleep
        /\ AdFrame

\* ==================================================================== Part VII
\* BrokenExchange of test_race_condition_without_lock: the throttle logic of
\* MinimalExchange with no lock around it.  Its clock is read in whole
\* milliseconds (line 273).

\* the clock of Part VII runs from its start to this many milliseconds later
MaxBrokenTime == 2
\* self.rateLimit = 500 of line 269, scaled down, in milliseconds
BrokenRateLimit == 2
\* time.sleep(0.001) of line 289, in milliseconds
BrokenNap == 1
\* time.time() * 1000 when the test starts: far beyond rateLimit
BrokenStart == 4
\* the locals of a thread: now of line 275, the timestamp line 276 read, the
\* clock reading at which its sleep is over, the reading line 290 stores, and
\* whether another thread stored a timestamp between its read and its store
BrokenLocals == [now |-> 0, seen |-> 0, wake |-> 0, ms |-> 0, raced |-> FALSE]

\* the timestamp when the threads start: 0 (line 271, no request yet) or
\* that of a request which returned just before
BrokenStamps == {0, BrokenStart - BrokenNap}

\* lines 268-271 and the threads before they start, each to call once
BrokenInit(ts) ==
    broken = [lastRestRequestTimestamp |-> ts,
              clock |-> BrokenStart,
              pc    |-> [t \in Threads |-> "idle"],
              loc   |-> [t \in Threads |-> BrokenLocals]]

\* (mutant) the test of line 279 is the wrong way round
BrokenDelayInverted(now_ms, last_ts, cost) ==
    LET elapsed == now_ms - last_ts
        sleep_time == BrokenRateLimit * cost
    IN  IF elapsed > sleep_time THEN sleep_time - elapsed ELSE 0

\* lines 276-281: the delay throttle sleeps for, 0 when it does not sleep
BrokenDelay(now_ms, last_ts, cost) ==
    LET elapsed == now_ms - last_ts
        sleep_time == BrokenRateLimit * cost
    IN  IF elapsed < sleep_time THEN sleep_time - elapsed ELSE 0

BrokenFrame == UNCHANGED <<mtVars, syncVars, returned, heap, table, held, eaVars,
                           thVars, adVars, set_back, bucket, bt>>

\* lines 286 and 275: fetch2_broken enters throttle, which reads the clock
BrokenReadClock(t) ==
    /\ broken.pc[t] = "idle"
    /\ broken' = [broken EXCEPT !.pc[t] = "now",
                                !.loc[t].now = broken.clock]
    /\ BrokenFrame

\* lines 276-281: throttle reads the timestamp and starts its sleep, or
\* returns; line 289: the sleep of fetch2_broken starts
BrokenThrottle(t) ==
    /\ broken.pc[t] = "now"
    /\ LET delay == BrokenDelay(broken.loc[t].now,
                                broken.lastRestRequestTimestamp, 1)
       IN  broken' = [broken EXCEPT
                         !.pc[t] = IF delay > 0 THEN "sleep" ELSE "nap",
                         !.loc[t].seen = broken.lastRestRequestTimestamp,
                         !.loc[t].wake = broken.clock
                                         + (IF delay > 0 THEN delay ELSE BrokenNap)]
    /\ BrokenFrame

\* line 281: the sleep of throttle is over; line 289: the next sleep starts
BrokenSleepReturns(t) ==
    /\ broken.pc[t] = "sleep"
    /\ broken.clock >= broken.loc[t].wake
    /\ broken' = [broken EXCEPT !.pc[t] = "nap",
                                !.loc[t].wake = broken.clock + BrokenNap]
    /\ BrokenFrame

\* lines 289-290: the sleep is over and milliseconds() is read
BrokenReadMs(t) ==
    /\ broken.pc[t] = "nap"
    /\ broken.clock >= broken.loc[t].wake
    /\ broken' = [broken EXCEPT !.pc[t] = "store",
                                !.loc[t].wake = 0,
                                !.loc[t].ms = broken.clock]
    /\ BrokenFrame

\* line 290: the reading is stored; every thread between its read of the
\* timestamp and its own store has been raced
BrokenStore(t) ==
    /\ broken.pc[t] = "store"
    /\ broken' = [broken EXCEPT
                     !.lastRestRequestTimestamp = broken.loc[t].ms,
                     !.pc[t] = "done",
                     !.loc = [u \in Threads |->
                                 IF u # t /\ broken.pc[u] \in {"sleep", "nap", "store"}
                                 THEN [broken.loc[u] EXCEPT !.raced = TRUE]
                                 ELSE broken.loc[u]]]
    /\ BrokenFrame

\* time passes
BrokenTick ==
    /\ broken.clock < BrokenStart + MaxBrokenTime
    /\ broken' = [broken EXCEPT !.clock = @ + 1]
    /\ BrokenFrame

\* =================================================================== Part VIII
\* CustomTokenBucketThrottler of base/throttle.py.  Time is in ticks and the
\* refill rate in tokens per tick.

\* the clock of Part VIII runs from 0 to this
MaxBucketTime == 2
\* throttle() calls made on the bucket in a behaviour
MaxBucketCalls == 3
\* capacity=10.0 of line 89, scaled down
BucketCapacity == 2
\* refill_rate=1.0 of line 89
BucketRefillRate == 1
\* the costs its callers ask for
BucketCosts == {1, 2}
\* the coroutines calling throttle
BucketCallers == {1, 2}

\* lines 89-93, constructed at clock reading 0, and the callers before they call
BucketInit ==
    bucket = [tokens      |-> BucketCapacity,
              last_refill |-> 0,
              clock       |-> 0,
              pc          |-> [c \in BucketCallers |-> "idle"],
              cost        |-> [c \in BucketCallers |-> 0],
              wake        |-> [c \in BucketCallers |-> 0],
              spent       |-> 0,
              ncalls      |-> 0]

\* lines 98-99: the balance after the refill of a call at clock reading t
BucketRefilled(t) ==
    Min(BucketCapacity,
        bucket.tokens + (t - bucket.last_refill) * BucketRefillRate)

BucketFrame == UNCHANGED <<mtVars, syncVars, returned, heap, table, held, eaVars,
                           thVars, adVars, set_back, broken, bt>>

\* lines 95-108 up to the await of line 105 or, with enough tokens, to the
\* return: the refill, the new last_refill, and the debit or the sleep
BucketThrottle(c, cost) ==
    /\ bucket.pc[c] = "idle"
    /\ bucket.ncalls < MaxBucketCalls
    /\ LET t_now == bucket.clock
           tokens == BucketRefilled(t_now)
       IN  IF tokens < cost
           THEN bucket' = [bucket EXCEPT
                              !.tokens = tokens,
                              !.last_refill = t_now,
                              !.pc[c] = "sleep",
                              !.cost[c] = cost,
                              !.wake[c] = t_now + CeilDiv(cost - tokens,
                                                          BucketRefillRate),
                              !.ncalls = @ + 1]
           ELSE bucket' = [bucket EXCEPT
                              !.tokens = tokens - cost,
                              !.last_refill = t_now,
                              !.spent = @ + cost,
                              !.ncalls = @ + 1]
    /\ BucketFrame

\* lines 105-106: the sleep is over, tokens = 0, and the call returns
BucketSleepReturns(c) ==
    /\ bucket.pc[c] = "sleep"
    /\ bucket.clock >= bucket.wake[c]
    /\ bucket' = [bucket EXCEPT !.tokens = 0,
                                !.pc[c] = "idle",
                                !.wake[c] = 0,
                                !.spent = @ + bucket.cost[c]]
    /\ BucketFrame

\* time passes
BucketTick ==
    /\ bucket.clock < MaxBucketTime
    /\ bucket' = [bucket EXCEPT !.clock = @ + 1]
    /\ BucketFrame

\* ==================================================================== Part IX
\* Throttler of base/throttle.py and the task running its loop.  Time is in
\* ticks, config['delay'] is one tick and config['refillRate'] one token
\* per tick.

\* the clock of Part IX runs from 0 to this
MaxBaseTime == 2
\* throttle() calls made on the Throttler in a behaviour
MaxBaseCalls == 4
\* 'capacity': 1.0 of line 25
BaseCapacity == 1
\* 'maxCapacity': 2000 of line 26, scaled down
BaseMaxCapacity == 2
\* 'delay': 0.001 of line 24, one tick
BaseDelay == 1
\* 'refillRate': 1.0 of line 23
BaseRefillRate == 1
\* 'cost': 1.0 of line 28, and another cost a caller passes
BaseCosts == {1, 2}
\* config['tokens'] at construction: 0 of line 27, or what the caller's
\* config puts there through lines 30-31
BaseStartTokens == {0 - 1, 0}

\* lines 21-33 with config['tokens'] = tk, and no call made yet
BaseInitWith(tk) ==
    bt = [tokens         |-> tk,
          queue          |-> <<>>,
          running        |-> FALSE,
          req            |-> [i \in 1..MaxBaseCalls |-> "none"],
          pc             |-> "none",
          last_timestamp |-> 0,
          wake           |-> 0,
          clock          |-> 0,
          ncalls         |-> 0]

BaseInit == BaseInitWith(0)

BaseFrame == UNCHANGED <<mtVars, syncVars, returned, heap, table, held, eaVars,
                         thVars, adVars, set_back, broken, bucket>>

\* Throttler.throttle, lines 58-73: the queue test, the future, the append,
\* and the loop task created when none is running
BaseThrottle(cost) ==
    /\ bt.ncalls < MaxBaseCalls
    /\ LET id == bt.ncalls + 1
       IN  IF Len(bt.queue) > BaseMaxCapacity
           THEN bt' = [bt EXCEPT !.req[id] = "QueueFull", !.ncalls = id]
           ELSE bt' = [bt EXCEPT
                          !.req[id] = "pending",
                          !.queue = Append(@, [id |-> id, cost |-> cost]),
                          !.running = TRUE,
                          !.pc = IF bt.running THEN @ ELSE "start",
                          !.ncalls = id]
    /\ BaseFrame

\* line 36: the task starts and reads the clock
BaseLoopStart ==
    /\ bt.pc = "start"
    /\ bt' = [bt EXCEPT !.pc = "top", !.last_timestamp = bt.clock]
    /\ BaseFrame

\* lines 37-45 and 51: one pass of the loop up to its next await or its end.
\* With tokens >= 0 it debits the cost and calls resolver(), which is
\* future.set_result with no argument and raises TypeError: the task ends
\* there, before the pop of line 46
BaseLoopPass ==
    /\ bt.pc = "top"
    /\ IF ~bt.running
       THEN bt' = [bt EXCEPT !.pc = "returned"]
       ELSE IF bt.queue = <<>>
       THEN bt' = [bt EXCEPT !.running = FALSE, !.pc = "returned"]
       ELSE IF bt.tokens >= 0
       THEN bt' = [bt EXCEPT !.tokens = @ - Head(bt.queue).cost,
                             !.pc = "raised"]
       ELSE bt' = [bt EXCEPT !.pc = "sleep", !.wake = bt.clock + BaseDelay]
    /\ BaseFrame

\* lines 51-56: the sleep is over and the tokens are refilled
BaseLoopWake ==
    /\ bt.pc = "sleep"
    /\ bt.clock >= bt.wake
    /\ bt' = [bt EXCEPT
                 !.tokens = Min(@ + BaseRefillRate * (bt.clock - bt.last_timestamp),
                                BaseCapacity),
                 !.last_timestamp = bt.clock,
                 !.wake = 0,
                 !.pc = "top"]
    /\ BaseFrame

\* time passes
BaseTick ==
    /\ bt.clock < MaxBaseTime
    /\ bt' = [bt EXCEPT !.clock = @ + 1]
    /\ BaseFrame

\* Part VII and later before any call
ExtInit ==
    /\ BrokenInit(0)
    /\ BucketInit
    /\ BaseInit

\* Parts IV and later before any call
CustInit ==
    /\ EAInit("binance")
    /\ ThMultiInit /\ ThInit
    /\ AdInit(Frac(1, 1), Frac(2, 1))
    /\ set_back = 0
    /\ ExtInit

\* ==================================================================== claims
\* every rule named by the cost exists and holds at least the cost
Affordable(rs, cost) ==
    \A i \in 1..Len(cost) :
        /\ cost[i][1] \in Known(rs)
        /\ rs[cost[i][1]].tokens >= cost[i][2]

Resumed(i) == req[i] = "pending" /\ req'[i] = "done"

\* ---- C1: admission is strictly first-in first-out.  While a request is in
\* the queue no request enqueued after it has been resumed; the queue shrinks
\* only by its head; and a waiter is resumed only when it is the head and the
\* head is affordable, so a blocked head blocks every follower.
FifoOrder ==
    \A k \in 1..Len(queue) : \A b \in 1..MaxRequests :
        b > queue[k].id => req[b] # "done"

OnlyAffordableHeadResumed ==
    /\ Len(queue') < Len(queue) => queue' = Tail(queue)
    /\ \A b \in 1..MaxRequests :
          Resumed(b) => /\ Len(queue) > 0
                        /\ Head(queue).id = b
                        /\ Affordable(rules, Head(queue).cost)
                        /\ queue' = Tail(queue)

C1_StrictFifo == []FifoOrder /\ [][OnlyAffordableHeadResumed]_vars

\* the driver sleeps on a blocked head while the request behind it is pending
\* and could be paid for at once
C1_Witness ==
    /\ pc = "sleep"
    /\ Len(queue) >= 2
    /\ ~Affordable(rules, queue[1].cost)
    /\ Affordable(rules, queue[2].cost)
    /\ req[queue[1].id] = "pending"
    /\ req[queue[2].id] = "pending"

\* ---- C2: every rule of the table has 0 <= tokens <= capacity (the claim as
\* stated; the code admits a negative cost, which credits the rule).
C2_TokensInRange ==
    \A r \in Known(rules) :
        /\ 0 <= rules[r].tokens
        /\ rules[r].tokens <= rules[r].capacity

\* ---- C3: the costs debited from a rule over an interval [t0, now] that no
\* add_rule, set_tokens or reset touched.
Observed == mark.set /\ mark.valid /\ mark.rule \in Known(rules)

\* as stated: at most tokens(r, t0) + refill_rate(r) * (now - t0)
C3_Original ==
    Observed =>
        mark.debited <= mark.tokens
                        + rules[mark.rule].refill_rate * (now - mark.time)

\* amended: the refill that was due at t0 but not yet credited counts too, so
\* the bound runs from the driver's last refill before t0
C3_DebitBound ==
    Observed =>
        mark.debited <= mark.tokens
                        + rules[mark.rule].refill_rate * (now - mark.since)

\* an interval that began while the driver was asleep behind its last refill,
\* in which time passed and tokens of the rule were debited
C3_Witness ==
    /\ Observed
    /\ mark.since < mark.time
    /\ mark.time < now
    /\ mark.debited > 0

\* ---- C4: admission is all or nothing.  A step that takes a request off the
\* queue takes the head, finds every rule of its cost holding at least the
\* cost, debits each of them by exactly its cost and leaves every other rule
\* alone; and a waiter is resumed only in such a step.
AllOrNothing ==
    /\ Len(queue') < Len(queue) =>
          LET cost == Head(queue).cost IN
          /\ queue' = Tail(queue)
          /\ Affordable(rules, cost)
          /\ \A i \in 1..Len(cost) :
                rules'[cost[i][1]] =
                    [rules[cost[i][1]] EXCEPT !.tokens = @ - cost[i][2]]
          /\ \A r \in RuleIds \ CostKeys(cost) : rules'[r] = rules[r]
    /\ \A b \in 1..MaxRequests :
          Resumed(b) => Len(queue') < Len(queue) /\ Head(queue).id = b

C4_AllOrNothing == [][AllOrNothing]_vars

\* after an admission the driver sleeps on a two-rule head that the first rule
\* could pay for and the second cannot: nothing of it has been debited
C4_Witness ==
    /\ pc = "sleep"
    /\ Len(queue) > 0
    /\ Len(Head(queue).cost) = 2
    /\ "B" \in Known(rules)
    /\ "A" \in Known(rules)
    /\ rules["A"].tokens >= 1
    /\ rules["B"].tokens < 1
    /\ \E b \in 1..MaxRequests : req[b] = "done"

\* ---- C5: the queue never holds more than max_capacity requests.
C5_QueueBounded == Len(queue) >= 0 /\ Len(queue) <= config.max_capacity

\* the queue is full while the driver is asleep and a further call was made
C5_Witness ==
    /\ Len(queue) = config.max_capacity
    /\ pc = "sleep"
    /\ ncalls > config.max_capacity

\* ---- C6: a throttle call whose cost names an id that is no current rule
\* raises the unknown-rule error, creates no future, appends nothing and
\* changes neither the tokens nor the running flag.
UnknownRuleFails ==
    \A c \in CostVectors :
        (Throttle(c) /\ CostKeys(c) \ Known(rules) # {}) =>
            /\ req'[ncalls + 1] = "UnknownRule"
            /\ \A i \in 1..MaxRequests : req'[i] = "pending" => req[i] = "pending"
            /\ queue' = queue
            /\ rules' = rules
            /\ running' = running

C6_UnknownRuleFails == [][UnknownRuleFails]_vars

\* a call was refused for an unknown id while other requests were queued
C6_Witness ==
    /\ \E i \in 1..MaxRequests : req[i] = "UnknownRule"
    /\ Len(queue) > 0

\* ---- C7: a throttle call raises the queue-full error exactly when every id
\* of its cost is known and the queue holds max_capacity requests or more; the
\* failing call changes neither the queue, nor the tokens, nor the flag.
QueueFullExactly ==
    \A c \in CostVectors :
        Throttle(c) =>
            /\ (req'[ncalls + 1] = "QueueFull") <=>
                    (/\ CostKeys(c) \subseteq Known(rules)
                     /\ Len(queue) >= config.max_capacity)
            /\ req'[ncalls + 1] = "QueueFull" =>
                    /\ queue' = queue
                    /\ rules' = rules
                    /\ running' = running

C7_QueueFullExactly == [][QueueFullExactly]_vars

\* a call was refused because the queue was full, and the queue still is
C7_Witness ==
    /\ \E i \in 1..MaxRequests : req[i] = "QueueFull"
    /\ Len(queue) = config.max_capacity

\* ---- C8: with rate limiting enabled the throttled section of fetch2 (the
\* read of lastRestRequestTimestamp, the sleep, the timestamp update) of an
\* instance is entered by one thread at a time, which holds the lock.
InSection(t) == tpc[t] \in {"throttle", "sleeping", "stamp", "store"}

OneAtATime ==
    /\ \A t, u \in Threads :
          (/\ InSection(t) /\ exchange[Self(t)].enableRateLimit
           /\ InSection(u) /\ exchange[Self(u)].enableRateLimit
           /\ Self(t) = Self(u)) => t = u
    /\ \A t \in Threads :
          (InSection(t) /\ exchange[Self(t)].enableRateLimit) =>
              lock[Self(t)].owner = t

C9_CrashDrainsQueue ==
    pc = "crashed" =>
        /\ Len(queue) = 0
        /\ \A i \in 1..MaxRequests : req[i] # "pending"

\* ---- C10: a request cancelled before admission is popped without a debit:
\* the step that takes a cancelled head off the queue leaves every rule
\* unchanged, and the driver never sleeps on a cancelled head (the claim as
\* stated).
CancelledHeadSkipped ==
    (/\ Len(queue) > 0
     /\ req[Head(queue).id] = "cancelled"
     /\ queue' = Tail(queue)) => rules' = rules

C10_CancelledSkipped ==
    /\ [](pc = "sleep" /\ Len(queue) > 0 => req[Head(queue).id] # "cancelled")
    /\ [][CancelledHeadSkipped]_vars

\* ---- C11: whenever requests are queued, observed while every coroutine is
\* suspended, a driver loop is alive that will look at the head of the queue
\* (the claim as stated; the loop that died in _can_process leaves the queue
\* behind with nobody to look at it).
C11_LiveDriver ==
    (Suspended /\ Len(queue) > 0) =>
        /\ running
        /\ pc \in {"scheduled", "yield", "sleep"}

\* ---- C12: the life of the driver.  running is false on a new throttler; a
\* call that is queued leaves running true, and starts a driver when running
\* was false; running is false only with an empty queue and no driver, and it
\* becomes false exactly when a pass of the driver ends on an empty queue; and
\* a request that starts a driver and can be paid for is admitted.
StartsDriver ==
    Len(queue') > Len(queue) =>
        /\ running'
        /\ ~running => pc' = "scheduled"

StoppedIsEmpty ==
    /\ ~running => Len(queue) = 0 /\ pc = "idle"
    /\ (running /\ pc \in {"scheduled", "sleep"}) => Len(queue) > 0

StopsOnEmptyQueue ==
    /\ (pc = "drain" /\ Len(queue) = 0) => ~running' /\ pc' = "idle"
    /\ (running /\ ~running') => pc = "drain" /\ Len(queue) = 0

\* the refill that opens a pass cuts every balance down to the capacity, so
\* the request must be payable from what the bucket can hold
StartedAndAffordable(i) ==
    /\ pc = "scheduled"
    /\ Len(queue) > 0
    /\ Head(queue).id = i
    /\ Affordable(rules, Head(queue).cost)
    /\ \A k \in 1..Len(Head(queue).cost) :
          Head(queue).cost[k][2] <= rules[Head(queue).cost[k][1]].capacity

C12_Lifecycle ==
    /\ ~running
    /\ [][StartsDriver]_vars
    /\ []StoppedIsEmpty
    /\ [][StopsOnEmptyQueue]_vars
    /\ \A i \in 1..MaxRequests : StartedAndAffordable(i) ~> (req[i] = "done")

\* the first request was admitted and its driver has stopped; the second
\* call has started a new driver, which has not run yet
C12_Witness ==
    /\ pc = "scheduled"
    /\ running
    /\ req[1] = "done"
    /\ req[2] = "pending"
    /\ Len(queue) = 1
    /\ Head(queue).id = 2

\* ---- C13: reset leaves every rule with tokens = capacity, changes neither
\* the capacity or the refill rate of a rule, nor the set of rules, nor the
\* queue, nor the running flag; and a second reset changes nothing more.
ResetFills ==
    reset =>
        /\ \A r \in RuleIds :
              IF r \in Known(rules)
              THEN /\ rules'[r].tokens = rules[r].capacity
                   /\ rules'[r].capacity = rules[r].capacity
                   /\ rules'[r].refill_rate = rules[r].refill_rate
                   /\ rules'[r].id = rules[r].id
              ELSE rules'[r] = NoRule
        /\ FillAll(rules') = rules'
        /\ queue' = queue
        /\ running' = running

C13_ResetIdempotent ==
    /\ [](FillAll(FillAll(rules)) = FillAll(rules))
    /\ [][ResetFills]_vars

\* the buckets of both rules are full while the driver sleeps on a head that
\* names both: the tokens were restored under the sleeping driver
C13_Witness ==
    /\ pc = "sleep"
    /\ Len(queue) > 0
    /\ CostKeys(Head(queue).cost) = {"A", "B"}
    /\ Known(rules) = {"A", "B"}
    /\ \A r \in Known(rules) : rules[r].tokens = rules[r].capacity

\* ---- C14: set_tokens(id, v) on an existing rule leaves its tokens at v
\* clamped into [0, capacity] and changes nothing else of the throttler; the
\* driver is suspended when it happens, so it sees the old or the new balance.
Clamped(v, capacity) ==
    IF v < 0 THEN 0 ELSE IF v > capacity THEN capacity ELSE v

SetTokensClamps ==
    \A id \in RuleIds : \A v \in TokenValues :
        (set_tokens(id, v) /\ id \in Known(rules)) =>
            /\ rules'[id] = [rules[id] EXCEPT
                                !.tokens = Clamped(v, rules[id].capacity)]
            /\ \A r \in RuleIds \ {id} : rules'[r] = rules[r]
            /\ queue' = queue
            /\ running' = running
            /\ req' = req
            /\ pc' = pc /\ Suspended

C14_SetTokensClamps == [][SetTokensClamps]_vars

\* before any request was made rule A, created full with 2 tokens, holds 1
C14_Witness ==
    /\ ncalls = 0
    /\ "A" \in Known(rules)
    /\ rules["A"].capacity = 2
    /\ rules["A"].tokens = 1

\* ---- C15: a request with an empty cost at the head of the queue is admitted
\* by the driver's next step on the queue, whatever the balances are: the
\* driver never sleeps on it and never dies on it, and the step that pops it
\* leaves every rule unchanged.
HeadIsEmpty == Len(queue) > 0 /\ Len(Head(queue).cost) = 0

EmptyHeadNotBlocked ==
    HeadIsEmpty =>
        /\ _can_process(rules, Head(queue).cost) = "yes"
        /\ pc \in {"scheduled", "loop", "drain", "yield"}

EmptyHeadAdmitted ==
    (HeadIsEmpty /\ pc = "drain") =>
        /\ queue' = Tail(queue)
        /\ rules' = rules
        /\ req[Head(queue).id] = "pending" => req'[Head(queue).id] = "done"

C15_EmptyCostAdmitted == []EmptyHeadNotBlocked /\ [][EmptyHeadAdmitted]_vars

\* the driver stands in its drain loop before an empty-cost head, with a
\* request queued behind it, while no rule holds a token
C15_Witness ==
    /\ pc = "drain"
    /\ HeadIsEmpty
    /\ Len(queue) >= 2
    /\ req[Head(queue).id] = "pending"
    /\ \A r \in Known(rules) : rules[r].tokens = 0


\* ---- C16: the table stores copies.  No object of the table is an object the
\* caller holds; an assignment of the caller to a field of its own object
\* leaves the table as the driver reads it unchanged; and a refill or a debit
\* of the driver leaves every object of the caller unchanged.
NoSharing == \A r \in RuleIds : table[r] # 0 => table[r] \notin held

CallerCannotReachTable ==
    (\E a \in Addresses, f \in MutableFields, v \in FieldValues :
        CallerSets(a, f, v)) => View(heap', table') = View(heap, table)

DriverCannotReachCaller ==
    (RefillObjects(1) \/ \E cost \in DebitVectors : ConsumeObjects(cost)) =>
        \A a \in held : heap'[a] = heap[a]

C16_ClonedOnInsert ==
    /\ []NoSharing
    /\ [][CallerCannotReachTable]_vars
    /\ [][DriverCannotReachCaller]_vars

\* the caller holds a rule object for A whose capacity it has set to 0 and
\* whose tokens are as it built them, while the table's rule A has its
\* capacity of 2 and has been debited
C16_Witness ==
    /\ table["A"] # 0
    /\ \E a \in held :
          /\ heap[a].id = "A"
          /\ heap[a].capacity = 0
          /\ heap[a].tokens = 2
    /\ heap[table["A"]].capacity = 2
    /\ heap[table["A"]].tokens = 1

\* ---- C17: get_status returns, for every rule of the table and for no other
\* id, the rule's tokens, its capacity and 1 - tokens / capacity of the state
\* it is called in; get_status, get_queue_length and is_running change nothing
\* of the throttler.
NothingChanged ==
    /\ rules' = rules
    /\ queue' = queue
    /\ running' = running
    /\ req' = req
    /\ pc' = pc

StatusIsSnapshot ==
    get_status =>
        /\ NothingChanged
        /\ DOMAIN returned'.value = Known(rules)
        /\ \A r \in Known(rules) :
              LET st == returned'.value[r] IN
              /\ st.tokens = rules[r].tokens
              /\ st.capacity = rules[r].capacity
              \* utilization = 1 - tokens / capacity, as fractions
              /\ st.utilization.den # 0
              /\ st.utilization.num * rules[r].capacity
                    = (rules[r].capacity - rules[r].tokens) * st.utilization.den

QueriesReadOnly ==
    /\ get_queue_length => NothingChanged /\ returned'.value = Len(queue)
    /\ is_running => NothingChanged /\ returned'.value = running

C17_StatusSnapshot == [][StatusIsSnapshot /\ QueriesReadOnly]_vars

\* get_status was called with requests queued and reported rule A half used
C17_Witness ==
    /\ returned.op = "get_status"
    /\ Len(queue) > 0
    /\ "A" \in DOMAIN returned.value
    /\ returned.value["A"].tokens = 1
    /\ returned.value["A"].capacity = 2
    /\ returned.value["A"].utilization.num * 2 = returned.value["A"].utilization.den

FirstCallFree ==
    \A t \in Threads :
        (/\ ThrottleCall(t)
         /\ lastRestRequestTimestamp[Self(t)] = 0
         /\ exchange[Self(t)].rateLimit * tlocal[t].cost <= milliseconds) =>
            /\ tpc'[t] = "stamp"
            /\ tlocal'[t].wake = 0

SleepsTheDifference ==
    \A t \in Threads :
        ThrottleCall(t) =>
            LET R       == exchange[Self(t)].rateLimit
                c       == tlocal[t].cost
                elapsed == milliseconds - lastRestRequestTimestamp[Self(t)]
            IN  IF elapsed < R * c
                THEN /\ tpc'[t] = "sleeping"
                     /\ tlocal'[t].wake = clock + (R * c - elapsed) * TicksPerMs
                ELSE /\ tpc'[t] = "stamp"
                     /\ tlocal'[t].wake = 0

LeavesNoEarlier ==
    \A t \in Threads :
        ((ReadClock(t) \/ Stamp(t)) /\ exchange[Self(t)].enableRateLimit) =>
            clock >= (lastRestRequestTimestamp[Self(t)]
                        + exchange[Self(t)].rateLimit * tlocal[t].cost) * TicksPerMs

C19_CostMultiplier == [][SleepsTheDifference /\ LeavesNoEarlier]_vars

\* a call of cost 2 has left an instance exactly 2 * rateLimit after the call
\* before it
C19_Witness ==
    \E i \in Instances :
        /\ Len(exits[i]) = 2
        /\ exits[i][2] - exits[i][1] = 2 * exchange[i].rateLimit * TicksPerMs

\* ---- C20: instances are independent.  A thread that waits for the lock of
\* its instance can take it whenever no other thread is inside the throttled
\* section of the same instance, whatever goes on in another instance; and a
\* step that changes the lock or the timestamp of an instance is a step of a
\* thread that is calling that instance.
NotBlockedByOthers ==
    \A t \in Threads :
        (/\ tpc[t] = "acquire"
         /\ \A u \in Threads \ {t} :
               (InSection(u) /\ exchange[Self(u)].enableRateLimit)
                    => Self(u) # Self(t)) => CanAcquire(t)

OwnStateOnly ==
    \A i \in Instances :
        (lock'[i] # lock[i]
            \/ lastRestRequestTimestamp'[i] # lastRestRequestTimestamp[i]
            \/ exits'[i] # exits[i]) =>
                \E t \in Threads : Self(t) = i /\ tpc'[t] # tpc[t]

C20_InstancesIndependent == []NotBlockedByOthers /\ [][OwnStateOnly]_vars

\* a thread sleeps inside one instance, holding its lock, while another
\* thread has gone through the other instance after that sleep began
C20_Witness ==
    \E t, u \in Threads :
        /\ tpc[t] = "sleeping"
        /\ Self(t) = 1
        /\ lock[1].owner = t
        /\ tpc[u] = "done"
        /\ Len(exits[2]) = 1
        /\ exits[2][1] > tlocal[t].wake - exchange[1].rateLimit * tlocal[t].cost * TicksPerMs
        /\ clock < tlocal[t].wake

\* ---- C21: with enableRateLimit false a request neither sleeps nor takes the
\* throttle lock, whatever lastRestRequestTimestamp and cost are: fetch2 goes
\* straight to the timestamp update, the lock of the instance stays free, and
\* the update stores the reading of the clock.
Unthrottled(t) ==
    /\ tpc[t] \notin {"start", "done"}
    /\ ~exchange[Self(t)].enableRateLimit

DisabledSkipsThrottle ==
    /\ \A t \in Threads : Unthrottled(t) => tpc[t] \in {"stamp", "store"}
    /\ \A i \in Instances :
          ~exchange[i].enableRateLimit => lock[LockOf(i)] = [owner |-> 0, depth |-> 0]

DisabledStillStamps ==
    \A t \in Threads :
        /\ (ReadClock(t) /\ Unthrottled(t)) =>
              /\ tlocal'[t].ms = milliseconds
              /\ lock' = lock
        /\ (Stamp(t) /\ Unthrottled(t)) =>
              /\ lastRestRequestTimestamp'[Self(t)] = tlocal[t].ms
              /\ lock' = lock
              /\ tpc'[t] = "done"

C21_DisabledNoThrottle == []DisabledSkipsThrottle /\ [][DisabledStillStamps]_vars

\* a request of cost 2 is at the timestamp update of a disabled instance in
\* the very millisecond in which the request before it stamped
C21_Witness ==
    \E t \in Threads :
        /\ tpc[t] = "stamp"
        /\ ~exchange[Self(t)].enableRateLimit
        /\ tlocal[t].cost = 2
        /\ lastRestRequestTimestamp[Self(t)] = milliseconds

\* ---- C22: timestamp discipline.  lastRestRequestTimestamp is 0 until a
\* request has stored it; with rate limiting enabled it changes only in a step
\* of the thread that holds the lock of the instance; the value stored is the
\* clock reading taken after the sleep; it is greater than 0 once stored; and
\* it never decreases, whatever the number of threads.
FreshUntilStored ==
    \A i \in Instances :
        (\A t \in Threads : tpc[t] # "done") => lastRestRequestTimestamp[i] = 0

WrittenUnderLock ==
    \A i \in Instances :
        (/\ lastRestRequestTimestamp'[i] # lastRestRequestTimestamp[i]
         /\ exchange[i].enableRateLimit) =>
            \E t \in Threads :
                /\ lock[LockOf(i)].owner = t
                /\ Self(t) = i
                /\ Stamp(t)

StoresReadingAfterSleep ==
    \A t \in Threads :
        /\ ReadClock(t) => tlocal'[t].ms = milliseconds
        /\ Stamp(t) =>
              /\ lastRestRequestTimestamp'[Self(t)] = tlocal[t].ms
              /\ lastRestRequestTimestamp'[Self(t)] > 0

NeverDecreases ==
    \A i \in Instances :
        lastRestRequestTimestamp'[i] >= lastRestRequestTimestamp[i]

C22_TimestampDiscipline ==
    /\ []FreshUntilStored
    /\ [][WrittenUnderLock /\ StoresReadingAfterSleep /\ NeverDecreases]_vars

\* ---- C23: progress.  Every thread that calls the throttled path on one
\* instance returns, and the lock is free once all have returned.  With
\* rateLimit R and cost 1 the stored timestamp of the k-th caller is at least
\* (k-1)*R after that of the first, and no caller is told to sleep beyond the
\* millisecond R after the timestamp before it: callers leave about R apart.
Called(t) == tpc[t] \notin {"start", "done"}

LockFreeAtRest ==
    (\A t \in Threads : ~Called(t)) =>
        \A i \in Instances : lock[LockOf(i)] = [owner |-> 0, depth |-> 0]

SpacedByR ==
    \A i \in Instances : \A k \in 1..Len(exits[i]) :
        (exits[i][k] \div TicksPerMs) >=
            (exits[i][1] \div TicksPerMs) + (k - 1) * exchange[i].rateLimit

NoLongerThanR ==
    \A t \in Threads :
        ThrottleCall(t) =>
            tlocal'[t].wake <
                (lastRestRequestTimestamp[Self(t)]
                    + exchange[Self(t)].rateLimit * tlocal[t].cost + 1) * TicksPerMs

HolderAcquiresAgain ==
    \A t \in Threads, i \in Instances :
        (AcquireDirect(t, i) /\ lock[LockOf(i)].owner = t) =>
            /\ returned' = [op |-> "acquire", value |-> TRUE]
            /\ lock'[LockOf(i)] = [owner |-> t, depth |-> lock[LockOf(i)].depth + 1]

HolderNotBlocked ==
    \A t \in Threads :
        (tpc[t] = "acquire" /\ LockHeldFor(t).owner = t) => ENABLED Acquire(t)

OthersRefused ==
    \A t \in Threads, i \in Instances :
        (AcquireDirect(t, i) /\ lock[LockOf(i)].owner \notin {0, t}) =>
            /\ returned' = [op |-> "acquire", value |-> FALSE]
            /\ lock' = lock

OthersWait ==
    \A t \in Threads :
        (tpc[t] = "acquire" /\ LockHeldFor(t).owner \notin {0, t}) =>
            ~ENABLED Acquire(t)

FreedByLastRelease ==
    \A i \in Instances :
        LET l == lock[LockOf(i)]
        IN  /\ (l.owner # 0 /\ lock'[LockOf(i)].owner # l.owner) =>
                  /\ l.depth = 1
                  /\ lock'[LockOf(i)] = [owner |-> 0, depth |-> 0]
            /\ (l.owner # 0 /\ lock'[LockOf(i)] # l /\ l.depth > 1) =>
                  /\ lock'[LockOf(i)].owner = l.owner
                  /\ lock'[LockOf(i)].depth \in {l.depth - 1, l.depth + 1}

C24_LockReentrant ==
    /\ [](HolderNotBlocked /\ OthersWait)
    /\ [][HolderAcquiresAgain /\ OthersRefused /\ FreedByLastRelease]_vars

\* a thread has taken the lock twice and released it once; another thread is
\* waiting at the with-block of fetch2 and has just been refused the lock
C24_Witness ==
    \E t, u \in Threads :
        /\ t # u
        /\ lock[LockOf(1)] = [owner |-> t, depth |-> 1]
        /\ returned = [op |-> "release"]
        /\ tpc[u] = "acquire"
        /\ Self(u) = 1

\* ---- C25: whenever the window of the ExchangeAwareThrottler is reset, at
\* the start of a call because the window has passed or after a call has
\* waited out an exhausted window, remaining is restored to the original
\* limit, so the call that made the reset leaves original_limit - cost.
OriginalLimit == exchange_limits[exchange_id].requests

WindowResetBy(c) ==
    /\ EAThrottle(c, 1) \/ EAResume(c)
    /\ limits # NoLimit
    /\ limits'.last_reset # limits.last_reset

RestoredOnReset ==
    \A c \in EACallers :
        (WindowResetBy(c) /\ ea_call'[c].pc = "idle") =>
            limits'.requests = OriginalLimit - ea_call'[c].cost

C25_WindowReset == [][RestoredOnReset]_vars

\* ---- C26: a scalar cost given to a Throttler that has no rule 'default' is
\* rejected: it is never in the queue, so it is never a head of the queue
\* that cannot be admitted.
ScalarNeedsDefault(cost) ==
    EffectiveCost(cost, th_config).kind = "scalar" => th_rules["default"] # NoRule

C26_ScalarRejected ==
    \A k \in 1..Len(th_queue) : ScalarNeedsDefault(th_queue[k].cost)

\* ---- C27: MultiThrottler.throttle refuses a cost vector with a negative
\* cost: no such request is ever in the queue, and no admission increases the
\* tokens of a rule.
HasNegativeCost(cost) == \E k \in 1..Len(cost) : cost[k][2] < 0

NoNegativeQueued == \A k \in 1..Len(queue) : ~HasNegativeCost(queue[k].cost)

AdmissionNeverCredits ==
    DriverAdmit =>
        \A r \in Known(rules) : rules'[r].tokens <= rules[r].tokens

C27_NegativeCostRefused == []NoNegativeQueued /\ [][AdmissionNeverCredits]_vars

\* ---- C28: scenario S1, scaled to rule A (capacity 2, 1 token per clock
\* unit, 2 tokens) and calls of cost {A: 1}: the first accepted call is the
\* first batch, the calls after it the second.
\* the head of the queue is the n-th call that throttle accepted
HeadRank ==
    Cardinality({j \in 1..Head(queue).id : req[j] \in {"pending", "done"}})

\* as stated: the calls of the second batch are admitted one per clock unit,
\* the first of them one unit after the first batch
C28_Original ==
    [][DriverAdmit => now >= HeadRank - 1]_vars

\* amended: the initial tokens pay for as many calls, of whichever batch, and
\* none of these is ever made to wait; each call beyond them is admitted no
\* earlier than one more clock unit after the start
PaidFromInitialTokens ==
    (DriverBlocked /\ Len(queue) > 0) => HeadRank > RuleA.tokens

OnePerUnitBeyond ==
    DriverAdmit => now >= HeadRank - RuleA.tokens

C28_LinearDrain == [][PaidFromInitialTokens /\ OnePerUnitBeyond]_vars

\* both the first call and the one submitted right after it were admitted at
\* t = 0, and the third, also submitted at t = 0, was admitted at t = 1
C28_Witness ==
    /\ req[1] = "done" /\ req[2] = "done" /\ req[3] = "done"
    /\ now = 1
    /\ last_timestamp = 1
    /\ rules["A"].tokens = 0
    /\ running /\ pc = "drain"

\* ---- C29: the adjustment rule of AdaptiveThrottler.  The 10th on_success
\* since success_count was last reset sets current_delay to
\* max(base_delay, current_delay * 0.9) and success_count to 0; the 3rd
\* on_error since error_count was last reset sets current_delay to
\* min(max_delay, current_delay * 1.5) and error_count to 0; every other
\* on_success or on_error, and every throttle call, leaves current_delay as
\* it is.
SameDelay == adaptive'.current_delay = adaptive.current_delay

SuccessRule ==
    on_success =>
        /\ adaptive'.error_count = adaptive.error_count
        /\ IF adaptive.success_count + 1 = SuccessThreshold
           THEN /\ adaptive'.success_count = 0
                /\ IF FracLeq(Times(adaptive.current_delay, 9, 10), adaptive.base_delay)
                   THEN FracEq(adaptive'.current_delay, adaptive.base_delay)
                   ELSE FracEq(adaptive'.current_delay,
                               Times(adaptive.current_delay, 9, 10))
           ELSE /\ adaptive'.success_count = adaptive.success_count + 1
                /\ SameDelay

ErrorRule ==
    on_error =>
        /\ adaptive'.success_count = adaptive.success_count
        /\ IF adaptive.error_count + 1 = ErrorThreshold
           THEN /\ adaptive'.error_count = 0
                /\ IF FracLeq(adaptive.max_delay, Times(adaptive.current_delay, 3, 2))
                   THEN FracEq(adaptive'.current_delay, adaptive.max_delay)
                   ELSE FracEq(adaptive'.current_delay,
                               Times(adaptive.current_delay, 3, 2))
           ELSE /\ adaptive'.error_count = adaptive.error_count + 1
                /\ SameDelay

ThrottleKeepsDelay ==
    (AdThrottle \/ AdThrottleReturns) => adaptive' = adaptive

CountersInStep ==
    /\ adaptive.success_count \in 0..(SuccessThreshold - 1)
    /\ adaptive.error_count \in 0..(ErrorThreshold - 1)

C29_AdjustmentRule ==
    /\ []CountersInStep
    /\ [][SuccessRule /\ ErrorRule /\ ThrottleKeepsDelay]_vars

\* three errors raised the delay from 1 s to 1.5 s and ten successes brought
\* it down to 1.35 s; two more errors are counted towards the next rise
C29_Witness ==
    /\ ad_adjusts >= 2
    /\ FracEq(adaptive.current_delay, Frac(135, 100))
    /\ adaptive.success_count = 0
    /\ adaptive.error_count = 2

\* the steps of the driver that can run the refill of line 133
RefillStep == DriverStart \/ DriverRefill \/ DriverWake

\* ---- C30: the elapsed time of a refill is clamped to >= 0: when the clock
\* reads earlier than at the previous pass, the refill of the pass treats
\* elapsed as zero and lowers the tokens of no rule (a balance within its
\* capacity is never lowered by a refill).
C30_ElapsedClamped ==
    [][RefillStep =>
          \A r \in Known(rules) :
              rules'[r].tokens >= Min(rules[r].tokens, rules[r].capacity)]_vars

\* ============================================================ specifications
Init ==
    /\ \E list \in InitialRuleLists : MTInit(list)
    /\ SyncInit([i \in Instances |-> MinimalExchange(2, TRUE)])
    /\ returned = NoReturn
    /\ CustInit
    /\ HeapInit(<<RuleA>>)

Next ==
    \/ \E cost \in CostVectors : Throttle(cost)
    \/ \E i \in 1..MaxRequests : Cancel(i)
    \/ \E rule \in InputRules : add_rule(rule)
    \/ \E r \in RuleIds : remove_rule(r)
    \/ reset
    \/ Tick
    \/ DriverStart
    \/ DriverRefill
    \/ DriverAdmit
    \/ DriverRaise
    \/ DriverBlocked
    \/ DriverWake

\* the MultiThrottler under its callers, their cancellation and the changes of
\* its rule table (set_tokens is exercised by SpecMarked and AdminSpec)
Spec == Init /\ [][Next]_vars

\* the MultiThrottler watched over one interval by the observer
NextMarked ==
    \/ \E cost \in CostVectors : Throttle(cost)
    \/ \E rule \in InputRules : add_rule(rule)
    \/ reset
    \/ \E r \in RuleIds, v \in FillValues : set_tokens(r, v)
    \/ Tick
    \/ \E r \in RuleIds : Mark(r)
    \/ DriverStart
    \/ DriverRefill
    \/ DriverAdmit
    \/ DriverBlocked
    \/ DriverWake

SpecMarked == Init /\ [][NextMarked]_vars

\* several threads calling fetch2 on one exchange instance
SyncNext ==
    \/ \E t \in Threads, i \in Instances, cost \in Costs : Fetch2(t, i, cost)
    \/ \E t \in Threads : Acquire(t)
    \/ \E t \in Threads : ThrottleCall(t)
    \/ \E t \in Threads : SleepReturns(t)
    \/ \E t \in Threads : ReadClock(t)
    \/ \E t \in Threads : Stamp(t)
    \/ SyncTick

SyncSpecInit ==
    /\ MTInit(<<RuleA>>)
    /\ \E ex \in Exchanges :
          SyncInit([i \in Instances |-> IF i = 1 THEN ex
                                        ELSE MinimalExchange(2, TRUE)])
    /\ returned = NoReturn
    /\ CustInit
    /\ HeapInit(<<RuleA>>)

SyncSpec == SyncSpecInit /\ [][SyncNext]_vars

\* the MultiThrottler under its administrative methods
AdminNext ==
    \/ \E cost \in CostVectors : Throttle(cost)
    \/ reset
    \/ \E r \in RuleIds, v \in TokenValues : set_tokens(r, v)
    \/ Tick
    \/ DriverStart
    \/ DriverRefill
    \/ DriverAdmit
    \/ DriverBlocked
    \/ DriverWake

AdminSpec == Init /\ [][AdminNext]_vars

\* the MultiThrottler under its query methods
StatusNext ==
    \/ \E cost \in CostVectors : Throttle(cost)
    \/ get_status
    \/ get_queue_length
    \/ is_running
    \/ Tick
    \/ DriverStart
    \/ DriverRefill
    \/ DriverAdmit
    \/ DriverBlocked
    \/ DriverWake

StatusSpec == Init /\ [][StatusNext]_vars

\* the rule objects of the caller and of the table
CloneInit ==
    /\ MTInit(<<RuleA>>)
    /\ SyncInit([i \in Instances |-> MinimalExchange(2, TRUE)])
    /\ returned = NoReturn
    /\ CustInit
    /\ \E list \in {<<>>, <<RuleA>>} : HeapInit(list)

CloneNext ==
    \/ \E rule \in InputRules : NewRule(rule)
    \/ \E a \in Addresses : AddRuleObject(a)
    \/ \E a \in Addresses, f \in MutableFields, v \in FieldValues : CallerSets(a, f, v)
    \/ RefillObjects(1)
    \/ \E cost \in DebitVectors : ConsumeObjects(cost)

CloneSpec == CloneInit /\ [][CloneNext]_vars

\* the MultiThrottler with its callers and a driver that the event loop runs
\* whenever it is ready
LiveNext ==
    \/ \E cost \in CostVectors : Throttle(cost)
    \/ Tick
    \/ DriverStart
    \/ DriverRefill
    \/ DriverAdmit
    \/ DriverBlocked
    \/ DriverWake

LiveSpec ==
    /\ Init
    /\ [][LiveNext]_vars
    /\ WF_vars(DriverStart)
    /\ WF_vars(DriverRefill)
    /\ WF_vars(DriverAdmit)
    /\ WF_vars(DriverBlocked)
    /\ WF_vars(DriverWake)


\* threads calling fetch2 with the default cost on one instance, under a
\* scheduler that lets every thread run and a clock that keeps going while a
\* thread sleeps
SyncLiveNext ==
    \/ \E t \in Threads : Fetch2(t, 1, 1)
    \/ \E t \in Threads : Acquire(t)
    \/ \E t \in Threads : ThrottleCall(t)
    \/ \E t \in Threads : SleepReturns(t)
    \/ \E t \in Threads : ReadClock(t)
    \/ \E t \in Threads : Stamp(t)
    \/ SyncTick
    \/ SleepTick

SyncLiveInit ==
    /\ MTInit(<<RuleA>>)
    /\ SyncInit([i \in Instances |-> MinimalExchange(2, TRUE)])
    /\ returned = NoReturn
    /\ CustInit
    /\ HeapInit(<<RuleA>>)

SyncLiveSpec ==
    /\ SyncLiveInit
    /\ [][SyncLiveNext]_vars
    /\ \A t \in Threads :
          /\ WF_vars(Acquire(t))
          /\ WF_vars(ThrottleCall(t))
          /\ WF_vars(SleepReturns(t))
          /\ WF_vars(ReadClock(t))
          /\ WF_vars(Stamp(t))
    /\ WF_vars(SleepTick)

\* threads that take and release the lock of instance 1 themselves, as the
\* lock tests do, around calls of fetch2 on it
LockNext ==
    \/ \E t \in Threads : Fetch2(t, 1, 1)
    \/ \E t \in Threads : Acquire(t)
    \/ \E t \in Threads : ThrottleCall(t)
    \/ \E t \in Threads : SleepReturns(t)
    \/ \E t \in Threads : ReadClock(t)
    \/ \E t \in Threads : Stamp(t)
    \/ \E t \in Threads : AcquireDirect(t, 1)
    \/ \E t \in Threads : ReleaseDirect(t, 1)
    \/ SleepTick

LockSpec == SyncLiveInit /\ [][LockNext]_vars

\* coroutines calling throttle on an ExchangeAwareThrottler
EANext ==
    \/ \E c \in EACallers, cost \in EACosts : EAThrottle(c, cost)
    \/ \E c \in EACallers : EAResume(c)
    \/ \E c \in EACallers : EANapOver(c)
    \/ EATick

EASpecInit ==
    /\ MTInit(<<RuleA>>)
    /\ SyncInit([i \in Instances |-> MinimalExchange(2, TRUE)])
    /\ returned = NoReturn
    /\ HeapInit(<<RuleA>>)
    /\ \E id \in ExchangeIds : EAInit(id)
    /\ ThMultiInit /\ ThInit
    /\ AdInit(Frac(1, 1), Frac(2, 1))
    /\ set_back = 0
    /\ ExtInit

EASpec == EASpecInit /\ [][EANext]_vars

\* coroutines calling throttle on a Throttler built from a rule list or from
\* a legacy config
ThNext ==
    \/ \E cost \in ThCosts : ThThrottle(cost)
    \/ ThStop
    \/ ThAdmit
    \/ ThBlocked
    \/ ThTick

ThSpecInit ==
    /\ MTInit(<<RuleA>>)
    /\ SyncInit([i \in Instances |-> MinimalExchange(2, TRUE)])
    /\ returned = NoReturn
    /\ HeapInit(<<RuleA>>)
    /\ EAInit("binance")
    /\ ThMultiInit \/ ThLegacyInit
    /\ ThInit
    /\ AdInit(Frac(1, 1), Frac(2, 1))
    /\ set_back = 0
    /\ ExtInit

ThSpec == ThSpecInit /\ [][ThNext]_vars

\* scenario S1: calls of cost {A: 1} on a MultiThrottler with rule A alone,
\* and a caller that reads the status
S1Init ==
    /\ MTInit(<<RuleA>>)
    /\ SyncInit([i \in Instances |-> MinimalExchange(2, TRUE)])
    /\ returned = NoReturn
    /\ CustInit
    /\ HeapInit(<<RuleA>>)

S1Next ==
    \/ Throttle(<< <<"A", 1>> >>)
    \/ get_status
    \/ Tick
    \/ DriverStart
    \/ DriverRefill
    \/ DriverAdmit
    \/ DriverBlocked
    \/ DriverWake

S1Spec == S1Init /\ [][S1Next]_vars

\* an AdaptiveThrottler, the requests that sleep in its throttle and the
\* caller that reports their outcome
AdNext ==
    \/ AdThrottle
    \/ AdThrottleReturns
    \/ on_success
    \/ on_error

AdSpecInit ==
    /\ MTInit(<<RuleA>>)
    /\ SyncInit([i \in Instances |-> MinimalExchange(2, TRUE)])
    /\ returned = NoReturn
    /\ HeapInit(<<RuleA>>)
    /\ EAInit("binance")
    /\ ThMultiInit /\ ThInit
    /\ \E args \in AdaptiveArgs : AdInit(args[1], args[2])
    /\ set_back = 0
    /\ ExtInit

AdSpec == AdSpecInit /\ [][AdNext]_vars

\* the MultiThrottler under a wall clock that can be set back
WallClockNext ==
    \/ \E cost \in { << <<"A", 1>> >>, << <<"A", 1>>, <<"B", 1>> >> } : Throttle(cost)
    \/ Tick
    \/ ClockSetBack
    \/ DriverStart
    \/ DriverRefill
    \/ DriverAdmit
    \/ DriverBlocked
    \/ DriverWake

WallClockSpec == Init /\ [][WallClockNext]_vars

\* a thread whose store no other thread's store came before, since it read
\* the timestamp, leaves at least rateLimit after the timestamp it overwrites
UnracedKeepsGap ==
    \A t \in Threads :
        BrokenStore(t) /\ ~broken.loc[t].raced =>
            /\ broken.lastRestRequestTimestamp = broken.loc[t].seen
            /\ broken'.lastRestRequestTimestamp
                   >= broken.lastRestRequestTimestamp + BrokenRateLimit

\* ---- C31: without the lock a race is reachable: two concurrent callers read
\* the same lastRestRequestTimestamp, sleep until the same instant and return
\* less than rateLimit apart (the witness); a gap shorter than rateLimit is
\* left only by a caller that was raced.
C31_RaceWithoutLock == [][UnracedKeepsGap]_vars

\* two threads have returned from calls that read the same timestamp of an
\* earlier request, slept because of it, and stored readings less than
\* rateLimit apart
C31_Witness ==
    \E t, u \in Threads :
        /\ t # u
        /\ broken.pc[t] = "done" /\ broken.pc[u] = "done"
        /\ broken.loc[t].seen = broken.loc[u].seen
        /\ broken.loc[t].seen > 0
        /\ BrokenDelay(broken.loc[t].now, broken.loc[t].seen, 1) > 0
        /\ BrokenDelay(broken.loc[u].now, broken.loc[u].seen, 1) > 0
        /\ broken.loc[t].ms - broken.loc[u].ms < BrokenRateLimit
        /\ broken.loc[u].ms - broken.loc[t].ms < BrokenRateLimit

\* ---- C32: the legacy throttlers raise the over-maxCapacity error whenever
\* the queue already holds maxCapacity requests, so the queue is never longer
\* than maxCapacity.
C32_QueueWithinMaxCapacity == Len(th_queue) <= ThMaxCap

\* the rule ids a queued cost names
NamedRules(cost) == IF cost.kind = "dict" THEN DOMAIN cost.c ELSE {}

\* ---- C33: a dict cost that names a rule id missing from the rule table is
\* an error raised by throttle: no such request is ever in the queue, where at
\* the head it would block every later request.
C33_UnknownRuleRejected ==
    \A k \in 1..Len(th_queue) :
        \A r \in NamedRules(th_queue[k].cost) : th_rules[r] # NoRule

\* request i is in the queue and every rule its cost names exists, refills,
\* and can hold the cost
WithinCapacity(cost) ==
    \A k \in 1..Len(cost) :
        /\ cost[k][1] \in Known(rules)
        /\ rules[cost[k][1]].refill_rate > 0
        /\ cost[k][2] <= rules[cost[k][1]].capacity
Eligible(i) ==
    \E k \in 1..Len(queue) : queue[k].id = i /\ WithinCapacity(queue[k].cost)

\* ---- C34: under a fair scheduler and an advancing clock every accepted
\* request whose cost fits the capacities of its rules is eventually admitted
\* and its waiter resumed, whatever the other queued requests are.
C34_NoStarvation ==
    \A i \in 1..MaxRequests : Eligible(i) ~> (req[i] = "done")

\* the costs of the callers of StarveSpec: one that fits rule A, one beyond
\* its capacity, and one on both rules
StarveCosts == { << <<"A", 1>> >>, << <<"A", 3>> >>, << <<"A", 1>>, <<"B", 1>> >> }

\* the cost asks of some rule of the table more than the rule can hold
OverCapacity(cost) ==
    \E k \in 1..Len(cost) :
        /\ cost[k][1] \in Known(rules)
        /\ cost[k][2] > rules[cost[k][1]].capacity
HeadOverCapacity == Len(queue) > 0 /\ OverCapacity(Head(queue).cost)

\* throttle accepts such a cost like any other
OverCapacityAccepted ==
    \A cost \in StarveCosts :
        (/\ Throttle(cost)
         /\ OverCapacity(cost)
         /\ CostKeys(cost) \subseteq Known(rules)
         /\ Len(queue) < config.max_capacity)
        => /\ req'[ncalls + 1] = "pending"
           /\ queue' = Append(queue, [id |-> ncalls + 1, cost |-> cost])
\* no step admits it
OverCapacityNeverAdmitted ==
    \A k \in 1..Len(queue) :
        OverCapacity(queue[k].cost) => req'[queue[k].id] = "pending"
\* at the head it stays the head, nothing behind it is admitted, and the
\* driver neither stops nor fails
HeadOverCapacityBlocks ==
    HeadOverCapacity =>
        /\ Len(queue') > 0 /\ Head(queue') = Head(queue)
        /\ \A i \in 1..MaxRequests : req'[i] = "done" => req[i] = "done"
        /\ running'
        /\ pc' \notin {"idle", "crashed"}

IdleKeepsTokens ==
    pc \in {"idle", "scheduled"} =>
        \A r \in Known(rules) :
            r \in Known(rules') /\ rules'[r].tokens = rules[r].tokens

\* ---- C36: time that passes while the MultiThrottler is idle is never
\* credited as refill: absent add_rule, set_tokens and reset, the tokens of
\* every rule at the first admission check of a restarted driver are those it
\* had when the previous driver stopped.
C36_IdleTimeNotCredited == [][IdleKeepsTokens]_vars

\* threads calling fetch2_broken on one BrokenExchange
\* C37: the CustomTokenBucketThrottler respects its bucket rate: the cost of
\* the calls that have returned by clock reading t, counted from the
\* construction at 0 with a full bucket, is at most capacity + refill_rate * t
C37_BucketRateRespected ==
    bucket.spent <= BucketCapacity + BucketRefillRate * bucket.clock

\* C38: the AdaptiveThrottler keeps its state in range: base_delay <=
\* current_delay <= max_delay, 0 <= success_count <= 9, 0 <= error_count <= 2
C38_AdaptiveStateInRange ==
    /\ FracLeq(adaptive.base_delay, adaptive.current_delay)
    /\ FracLeq(adaptive.current_delay, adaptive.max_delay)
    /\ adaptive.success_count \in 0..(SuccessThreshold - 1)
    /\ adaptive.error_count \in 0..(ErrorThreshold - 1)

\* two rises brought the delay from base_delay to max_delay, and both
\* counters stand one call before their thresholds
C38_Witness ==
    /\ ad_adjusts >= 2
    /\ FracEq(adaptive.current_delay, adaptive.max_delay)
    /\ adaptive.success_count = SuccessThreshold - 1
    /\ adaptive.error_count = ErrorThreshold - 1

\* a future of the base Throttler that its loop can pay for: it is pending
\* at the head of the queue and config['tokens'] >= 0
BasePermitted(i) ==
    /\ bt.req[i] = "pending"
    /\ bt.queue # <<>>
    /\ Head(bt.queue).id = i
    /\ bt.tokens >= 0

\* the loop task of the base Throttler ended with an exception
BaseLoopRaised == bt.pc = "raised"

\* C39: progress of the base Throttler: the loop task never ends with an
\* exception while requests are queued, running is false only when the queue
\* is empty, and every future is resolved once the token balance permits
C39_BaseThrottlerProgress ==
    /\ [](BaseLoopRaised => bt.queue = <<>>)
    /\ [](~bt.running => bt.queue = <<>>)
    /\ \A i \in 1..MaxBaseCalls : BasePermitted(i) ~> (bt.req[i] = "done")

BrokenNext ==
    \/ \E t \in Threads : BrokenReadClock(t)
    \/ \E t \in Threads : BrokenThrottle(t)
    \/ \E t \in Threads : BrokenSleepReturns(t)
    \/ \E t \in Threads : BrokenReadMs(t)
    \/ \E t \in Threads : BrokenStore(t)
    \/ BrokenTick

BrokenSpecInit ==
    /\ MTInit(<<RuleA>>)
    /\ SyncInit([i \in Instances |-> MinimalExchange(2, TRUE)])
    /\ returned = NoReturn
    /\ HeapInit(<<RuleA>>)
    /\ EAInit("binance")
    /\ ThMultiInit /\ ThInit
    /\ AdInit(Frac(1, 1), Frac(2, 1))
    /\ set_back = 0
    /\ \E ts \in BrokenStamps : BrokenInit(ts)
    /\ BucketInit
    /\ BaseInit

BrokenSpec == BrokenSpecInit /\ [][BrokenNext]_vars

\* the MultiThrottler with its callers, a driver that the event loop runs
\* whenever it is ready, and a clock that never stops
StarveNext ==
    \/ \E cost \in StarveCosts : Throttle(cost)
    \/ Tick
    \/ LateTick
    \/ DriverStart
    \/ DriverRefill
    \/ DriverAdmit
    \/ DriverBlocked
    \/ DriverWake

StarveSpec ==
    /\ Init
    /\ [][StarveNext]_vars
    /\ WF_vars(Tick \/ LateTick)
    /\ WF_vars(DriverStart)
    /\ WF_vars(DriverRefill)
    /\ WF_vars(DriverAdmit)
    /\ WF_vars(DriverBlocked)
    /\ WF_vars(DriverWake)

\* the CustomTokenBucketThrottler under its callers
BucketNext ==
    \/ \E c \in BucketCallers, cost \in BucketCosts : BucketThrottle(c, cost)
    \/ \E c \in BucketCallers : BucketSleepReturns(c)
    \/ BucketTick

BucketSpec == Init /\ [][BucketNext]_vars

\* the base Throttler under its callers, with a loop task that the event
\* loop runs whenever it is ready
BaseNext ==
    \/ \E cost \in BaseCosts : BaseThrottle(cost)
    \/ BaseLoopStart
    \/ BaseLoopPass
    \/ BaseLoopWake
    \/ BaseTick

BaseSpecInit ==
    /\ MTInit(<<RuleA>>)
    /\ SyncInit([i \in Instances |-> MinimalExchange(2, TRUE)])
    /\ returned = NoReturn
    /\ HeapInit(<<RuleA>>)
    /\ EAInit("binance")
    /\ ThMultiInit /\ ThInit
    /\ AdInit(Frac(1, 1), Frac(2, 1))
    /\ set_back = 0
    /\ BrokenInit(0)
    /\ BucketInit
    /\ \E tk \in BaseStartTokens : BaseInitWith(tk)

BaseSpec ==
    /\ BaseSpecInit
    /\ [][BaseNext]_vars
    /\ WF_vars(BaseLoopStart)
    /\ WF_vars(BaseLoopPass)
    /\ WF_vars(BaseLoopWake)
    /\ WF_vars(BaseTick)

====
